---- MODULE Spec2Model ----
(***************************************************************************)
(* pygamit-bridge, converter.py: the RINEX 3 -> RINEX 2.11 transcoder,     *)
(* and downloader.py: _wget_download.                                      *)
(*                                                                         *)
(* A text line is a sequence of one-character strings, in the form         *)
(* readlines() returns it: the line terminator NL is its last character    *)
(* (the last line of a file may lack it).  Columns are 0-based as in the   *)
(* source; Slice(s, a, b) is Python's s[a:b].  A file is the sequence of   *)
(* its lines.                                                              *)
(***************************************************************************)
EXTENDS Integers, Sequences, FiniteSets, TLC

VARIABLES
    inRaw,        \* the bytes of input_file, as lines of raw characters
    outFile,      \* the file at output_file: [exists, content]
    outBefore,    \* outFile as it was before the call
    outOpened,    \* output_file has been opened for writing or copied onto
    pc,           \* position in convert_rinex3_to_rinex2
    result,       \* "none" while running, then "True", "False" or the exception raised
    lines,        \* lines = f.readlines()
    header,       \* the dict built by _parse_rinex3_header
    i,            \* the line index of the loop in progress
    rnx2_types,   \* _build_obs_type_mapping: the RINEX 2 type list
    mapping,      \* _build_obs_type_mapping: source index -> RINEX 2 type or None
    epoch,        \* _convert_data: the fields parsed from the epoch line
    j,            \* _convert_data: satellite lines consumed for this epoch
    sats,         \* _convert_data: the retained satellite ids, in order
    sat_data,     \* _convert_data: satellite id -> its 16-column slices
    emitted,      \* per output write of _convert_data: what it was and its source line
    other         \* the other calls of the process, each with its own files and locals

vars == <<inRaw, outFile, outBefore, outOpened, pc, result, lines, header, i,
          rnx2_types, mapping, epoch, j, sats, sat_data, emitted, other>>

-----------------------------------------------------------------------------
(* Characters and Python's string operations.                              *)

NL == "\n"
\* None, as a value that compares with any string of characters.
None == <<"None">>

\* An undecodable byte of the input, and what open(..., errors='replace')
\* gives for it.
BadByte == "\\xff"
ReplacementChar == "\\ufffd"

Digits == <<"0", "1", "2", "3", "4", "5", "6", "7", "8", "9">>
IsDigit(c) == \E d \in 1..10 : Digits[d] = c
DigitVal(c) == (CHOOSE d \in 1..10 : Digits[d] = c) - 1

\* str.strip(), str.rstrip() and str.split() with no argument act on
\* whitespace; of it, text lines here hold the blank and the line terminator.
IsSpace(c) == c \in {" ", NL}

Min(a, b) == IF a < b THEN a ELSE b
Max(a, b) == IF a > b THEN a ELSE b

\* s[a:b] for 0 <= a <= b: clipped to the string, never an error.
Slice(s, a, b) == SubSeq(s, a + 1, Min(b, Len(s)))
\* s[a:]
SliceFrom(s, a) == SubSeq(s, a + 1, Len(s))

RECURSIVE LStrip(_)
LStrip(s) == IF s # <<>> /\ IsSpace(Head(s)) THEN LStrip(Tail(s)) ELSE s

RECURSIVE RStrip(_)
RStrip(s) ==
    IF s # <<>> /\ IsSpace(s[Len(s)]) THEN RStrip(SubSeq(s, 1, Len(s) - 1)) ELSE s

Strip(s) == LStrip(RStrip(s))

\* The length of the first whitespace-free run of a string that starts with one.
TokLen(t) ==
    LET stops == {k \in 1..Len(t) : IsSpace(t[k])}
    IN  IF stops = {} THEN Len(t)
        ELSE (CHOOSE k \in stops : \A m \in stops : k <= m) - 1

RECURSIVE Split(_)
Split(s) ==
    LET t == LStrip(s)
    IN  IF t = <<>> THEN <<>>
        ELSE <<SubSeq(t, 1, TokLen(t))>> \o Split(SubSeq(t, TokLen(t) + 1, Len(t)))

\* The characters of a sequence as one string (a dict key).
RECURSIVE Join(_)
Join(s) == IF s = <<>> THEN "" ELSE Head(s) \o Join(Tail(s))

Blanks(n) == [k \in 1..n |-> " "]

\* f"{s:20s}" and s.ljust(n): pad on the right, never cut.
LJust(s, n) == s \o Blanks(Max(0, n - Len(s)))
\* f"{s:>6s}": pad on the left, never cut.
RJust(s, n) == Blanks(Max(0, n - Len(s))) \o s

StartsWith(s, c) == s # <<>> /\ Head(s) = c

RECURSIVE Pow10(_)
Pow10(n) == IF n = 0 THEN 1 ELSE 10 * Pow10(n - 1)

RECURSIVE DigitsVal(_)
DigitsVal(s) == IF s = <<>> THEN 0 ELSE 10 * DigitsVal(SubSeq(s, 1, Len(s) - 1)) + DigitVal(s[Len(s)])

AllDigits(s) == \A k \in 1..Len(s) : IsDigit(s[k])

HasSign(t) == t # <<>> /\ Head(t) \in {"+", "-"}
Unsigned(t) == IF HasSign(t) THEN Tail(t) ELSE t
Signed(t, v) == IF StartsWith(t, "-") THEN 0 - v ELSE v

\* int(s): blanks around, an optional sign, one or more decimal digits.
\* Anything else raises ValueError.
IntOk(s) == LET u == Unsigned(Strip(s)) IN u # <<>> /\ AllDigits(u)
IntVal(s) == LET t == Strip(s) IN Signed(t, DigitsVal(Unsigned(t)))

\* float(s) on fixed-point text: blanks around, an optional sign, digits with
\* at most one point and at least one digit.  The value is kept exactly, as
\* an integer count of 10^-FracDigits; digits beyond that are cut.
FracDigits == 7
PointAt(u) ==
    LET ps == {k \in 1..Len(u) : u[k] = "."}
    IN  IF ps = {} THEN Len(u) + 1 ELSE CHOOSE k \in ps : \A m \in ps : k <= m
IntPart(u) == SubSeq(u, 1, PointAt(u) - 1)
FracPart(u) == SubSeq(u, PointAt(u) + 1, Len(u))
FloatOk(s) ==
    LET u == Unsigned(Strip(s))
    IN  /\ AllDigits(IntPart(u))
        /\ AllDigits(FracPart(u))
        /\ Len(IntPart(u)) + Len(FracPart(u)) > 0
FloatVal(s) ==
    LET t == Strip(s)
        u == Unsigned(t)
        f == Slice(FracPart(u), 0, FracDigits)
    IN  Signed(t, DigitsVal(IntPart(u)) * Pow10(FracDigits)
                  + DigitsVal(f) * Pow10(FracDigits - Len(f)))

\* str(n) for n >= 0.
RECURSIVE NatStr(_)
NatStr(n) == IF n < 10 THEN <<Digits[n + 1]>> ELSE NatStr(n \div 10) \o <<Digits[(n % 10) + 1]>>

IntStr(n) == IF n < 0 THEN <<"-">> \o NatStr(0 - n) ELSE NatStr(n)

\* f"{n:{w}d}"
FmtInt(n, w) == RJust(IntStr(n), w)

\* f"{v:{w}.{d}f}" for d <= FracDigits: rounded to d decimals, right-justified.
FmtFixed(v, w, d) ==
    LET q == Pow10(FracDigits - d)
        a == IF v < 0 THEN 0 - v ELSE v
        r == (a + (q \div 2)) \div q
        whole == NatStr(r \div Pow10(d))
        frac == RJust(NatStr(r % Pow10(d)), d)
        fr == [k \in 1..d |-> IF frac[k] = " " THEN "0" ELSE frac[k]]
    IN  RJust((IF v < 0 THEN <<"-">> ELSE <<>>) \o whole \o <<".">> \o fr, w)

-----------------------------------------------------------------------------
(* The record labels of both formats (columns 60 and up of a header line). *)

LBL_VERSION ==
    <<"R","I","N","E","X"," ","V","E","R","S","I","O","N"," ","/"," ","T","Y","P","E">>
LBL_PGM ==
    <<"P","G","M"," ","/"," ","R","U","N"," ","B","Y"," ","/"," ","D","A","T","E">>
LBL_MARKER_NAME ==
    <<"M","A","R","K","E","R"," ","N","A","M","E">>
LBL_MARKER_NUMBER ==
    <<"M","A","R","K","E","R"," ","N","U","M","B","E","R">>
LBL_OBSERVER ==
    <<"O","B","S","E","R","V","E","R"," ","/"," ","A","G","E","N","C","Y">>
LBL_REC ==
    <<"R","E","C"," ","#"," ","/"," ","T","Y","P","E"," ","/"," ","V","E","R","S">>
LBL_ANT ==
    <<"A","N","T"," ","#"," ","/"," ","T","Y","P","E">>
LBL_POS ==
    <<"A","P","P","R","O","X"," ","P","O","S","I","T","I","O","N"," ","X","Y","Z">>
LBL_DELTA ==
    <<"A","N","T","E","N","N","A",":"," ","D","E","L","T","A"," ","H","/","E","/","N">>
LBL_WAVELENGTH ==
    <<"W","A","V","E","L","E","N","G","T","H"," ","F","A","C","T"," ","L","1","/","2">>
LBL_SYS_OBS ==
    <<"S","Y","S"," ","/"," ","#"," ","/"," ","O","B","S"," ","T","Y","P","E","S">>
LBL_TYPES_OBSERV ==
    <<"#"," ","/"," ","T","Y","P","E","S"," ","O","F"," ","O","B","S","E","R","V">>
LBL_INTERVAL ==
    <<"I","N","T","E","R","V","A","L">>
LBL_TIME_FIRST ==
    <<"T","I","M","E"," ","O","F"," ","F","I","R","S","T"," ","O","B","S">>
LBL_TIME_LAST ==
    <<"T","I","M","E"," ","O","F"," ","L","A","S","T"," ","O","B","S">>
LBL_END ==
    <<"E","N","D"," ","O","F"," ","H","E","A","D","E","R">>

\* The RINEX3 -> RINEX2 observation type table.
OBS_MAPPING ==
    [C1C |-> <<"C","1">>, C1S |-> <<"C","1">>, C1L |-> <<"C","1">>, C1X |-> <<"C","1">>,
     C1P |-> <<"P","1">>, C1W |-> <<"P","1">>, L1C |-> <<"L","1">>, L1S |-> <<"L","1">>,
     L1L |-> <<"L","1">>, L1X |-> <<"L","1">>, L1P |-> <<"L","1">>, L1W |-> <<"L","1">>,
     D1C |-> <<"D","1">>, D1S |-> <<"D","1">>, D1L |-> <<"D","1">>, D1X |-> <<"D","1">>,
     S1C |-> <<"S","1">>, S1S |-> <<"S","1">>, S1L |-> <<"S","1">>, S1X |-> <<"S","1">>,
     C2C |-> <<"C","2">>, C2S |-> <<"C","2">>, C2L |-> <<"C","2">>, C2X |-> <<"C","2">>,
     C2P |-> <<"P","2">>, C2W |-> <<"P","2">>, L2C |-> <<"L","2">>, L2S |-> <<"L","2">>,
     L2L |-> <<"L","2">>, L2X |-> <<"L","2">>, L2P |-> <<"L","2">>, L2W |-> <<"L","2">>,
     D2C |-> <<"D","2">>, D2S |-> <<"D","2">>, D2L |-> <<"D","2">>, D2X |-> <<"D","2">>,
     S2C |-> <<"S","2">>, S2S |-> <<"S","2">>, S2L |-> <<"S","2">>, S2X |-> <<"S","2">>,
     C5I |-> <<"C","5">>, C5Q |-> <<"C","5">>, C5X |-> <<"C","5">>, L5I |-> <<"L","5">>,
     L5Q |-> <<"L","5">>, L5X |-> <<"L","5">>, D5I |-> <<"D","5">>, D5Q |-> <<"D","5">>,
     D5X |-> <<"D","5">>, S5I |-> <<"S","5">>, S5Q |-> <<"S","5">>, S5X |-> <<"S","5">>]

LabelCol == 60
FieldWidth == 16
SatIdWidth == 3
TypesPerLine == 9
SatsPerLine == 12
ObsPerLine == 5

-----------------------------------------------------------------------------
(* _parse_rinex3_header                                                    *)

\* label = line[60:].strip() if len(line) > 60 else ''
Label(line) == IF Len(line) > LabelCol THEN Strip(SliceFrom(line, LabelCol)) ELSE <<>>

EmptyDict == [k \in {} |-> <<>>]
DictPut(d, k, v) == [x \in (DOMAIN d) \cup {k} |-> IF x = k THEN v ELSE d[x]]
\* d.get(k, [])
DictGet(d, k) == IF k \in DOMAIN d THEN d[k] ELSE <<>>

\* s[:n] of a list, n of either sign.
ListTo(s, n) ==
    IF n >= 0 THEN SubSeq(s, 1, Min(n, Len(s))) ELSE SubSeq(s, 1, Max(0, Len(s) + n))

InitialHeader ==
    [version |-> <<"3", ".", "0", "4">>,
     type |-> <<"O">>,
     system |-> <<"M">>,
     marker_name |-> <<>>,
     marker_number |-> <<>>,
     observer |-> <<>>,
     agency |-> <<>>,
     receiver |-> [serial |-> <<>>, type |-> <<>>, version |-> <<>>],
     antenna |-> [serial |-> <<>>, type |-> <<>>, delta |-> <<0, 0, 0>>],
     approx_pos |-> <<0, 0, 0>>,
     obs_types |-> EmptyDict,
     interval |-> 30 * Pow10(FracDigits),
     time_first |-> <<>>,
     time_last |-> <<>>,
     header_end_line |-> 0]

\* The three floats of an APPROX POSITION XYZ or ANTENNA: DELTA H/E/N line.
TripleOk(line) ==
    FloatOk(Slice(line, 0, 14)) /\ FloatOk(Slice(line, 14, 28)) /\ FloatOk(Slice(line, 28, 42))
TripleVal(line) ==
    <<FloatVal(Slice(line, 0, 14)), FloatVal(Slice(line, 14, 28)), FloatVal(Slice(line, 28, 42))>>

\* The continuation loop of a SYS / # / OBS TYPES line at index idx: the
\* index it stops at and the tokens assembled.
RECURSIVE ObsTypesScan(_, _, _, _)
ObsTypesScan(ls, idx, toks, num_obs) ==
    IF Len(toks) < num_obs /\ idx + 1 < Len(ls)
    THEN LET next_line == ls[idx + 2]
         IN  IF Label(next_line) = LBL_SYS_OBS
             THEN ObsTypesScan(ls, idx + 1, toks \o Split(Slice(next_line, 7, 60)), num_obs)
             ELSE [i |-> idx + 1, toks |-> toks]
    ELSE [i |-> idx, toks |-> toks]

\* One pass of the while loop on lines[idx]: the header after it, the index
\* the loop goes on from, and how the pass ended ("next": i += 1 done,
\* "break": END OF HEADER, "ValueError": int() raised).
ParseStep(h, ls, idx) ==
    LET line == ls[idx + 1]
        label == Label(line)
        go(hh) == [header |-> hh, i |-> idx + 1, end |-> "next"]
    IN  IF label = LBL_VERSION
        THEN go([h EXCEPT !.version = Strip(Slice(line, 0, 9)),
                          !.type = Strip(Slice(line, 20, 21)),
                          !.system = Strip(Slice(line, 40, 41))])
        ELSE IF label = LBL_MARKER_NAME
        THEN go([h EXCEPT !.marker_name = Strip(Slice(line, 0, 60))])
        ELSE IF label = LBL_MARKER_NUMBER
        THEN go([h EXCEPT !.marker_number = Strip(Slice(line, 0, 20))])
        ELSE IF label = LBL_OBSERVER
        THEN go([h EXCEPT !.observer = Strip(Slice(line, 0, 20)),
                          !.agency = Strip(Slice(line, 20, 40))])
        ELSE IF label = LBL_REC
        THEN go([h EXCEPT !.receiver = [serial |-> Strip(Slice(line, 0, 20)),
                                        type |-> Strip(Slice(line, 20, 40)),
                                        version |-> Strip(Slice(line, 40, 60))]])
        ELSE IF label = LBL_ANT
        THEN go([h EXCEPT !.antenna.serial = Strip(Slice(line, 0, 20)),
                          !.antenna.type = Strip(Slice(line, 20, 40))])
        ELSE IF label = LBL_POS
        THEN go(IF TripleOk(line) THEN [h EXCEPT !.approx_pos = TripleVal(line)] ELSE h)
        ELSE IF label = LBL_DELTA
        THEN go(IF TripleOk(line) THEN [h EXCEPT !.antenna.delta = TripleVal(line)] ELSE h)
        ELSE IF label = LBL_SYS_OBS
        THEN IF ~IntOk(Strip(Slice(line, 3, 6)))
             THEN [header |-> h, i |-> idx, end |-> "ValueError"]
             ELSE LET sys_code == Join(Slice(line, 0, 1))
                      num_obs == IntVal(Strip(Slice(line, 3, 6)))
                      scan == ObsTypesScan(ls, idx, Split(Slice(line, 7, 60)), num_obs)
                  IN  [header |-> [h EXCEPT !.obs_types =
                                      DictPut(@, sys_code, ListTo(scan.toks, num_obs))],
                       i |-> scan.i + 1,
                       end |-> "next"]
        ELSE IF label = LBL_INTERVAL
        THEN go(IF FloatOk(Slice(line, 0, 10))
                THEN [h EXCEPT !.interval = FloatVal(Slice(line, 0, 10))] ELSE h)
        ELSE IF label = LBL_TIME_FIRST
        THEN go([h EXCEPT !.time_first = Strip(Slice(line, 0, 60))])
        ELSE IF label = LBL_TIME_LAST
        THEN go([h EXCEPT !.time_last = Strip(Slice(line, 0, 60))])
        ELSE IF label = LBL_END
        THEN [header |-> [h EXCEPT !.header_end_line = idx], i |-> idx, end |-> "break"]
        ELSE go(h)

-----------------------------------------------------------------------------
(* _build_obs_type_mapping                                                 *)

\* OBS_MAPPING.get(rnx3_type, None)
ObsLookup(rnx3_type) ==
    IF Join(rnx3_type) \in DOMAIN OBS_MAPPING THEN OBS_MAPPING[Join(rnx3_type)] ELSE None

InSeq(x, s) == \E k \in 1..Len(s) : s[k] = x

\* TypesAfter, had a repeated type been moved to the end of the list.
RECURSIVE TypesAfter_LastWins(_, _)
TypesAfter_LastWins(gps_types, n) ==
    IF n = 0 THEN <<>>
    ELSE LET before == TypesAfter_LastWins(gps_types, n - 1)
             rnx2_type == ObsLookup(gps_types[n])
             others == {k \in 1..Len(before) : before[k] # rnx2_type}
         IN  IF rnx2_type # None
             THEN Append([m \in 1..Cardinality(others) |->
                            before[CHOOSE k \in others :
                                       Cardinality({x \in others : x <= k}) = m]],
                         rnx2_type)
             ELSE before

\* The state of the for loop after the first n source types: the list so
\* far (seen holds exactly its elements).
RECURSIVE TypesAfter(_, _)
TypesAfter(gps_types, n) ==
    IF n = 0 THEN <<>>
    ELSE LET before == TypesAfter(gps_types, n - 1)
             rnx2_type == ObsLookup(gps_types[n])
         IN  IF rnx2_type # None /\ ~InSeq(rnx2_type, before)
             THEN Append(before, rnx2_type)
             ELSE before

\* BuildObsTypeMapping, had mapping[idx] been set inside the if: a repeated
\* type is left unmapped.
BuildObsTypeMapping_FirstOnly(h) ==
    LET gps_types == DictGet(h.obs_types, "G")
    IN  [rnx2_types |-> TypesAfter(gps_types, Len(gps_types)),
         mapping |-> [idx \in 0..(Len(gps_types) - 1) |->
                        IF TypesAfter(gps_types, idx + 1) # TypesAfter(gps_types, idx)
                        THEN ObsLookup(gps_types[idx + 1]) ELSE None]]

\* (rnx2_types, mapping); mapping is keyed by the 0-based source index.
BuildObsTypeMapping(h) ==
    LET gps_types == DictGet(h.obs_types, "G")
    IN  [rnx2_types |-> TypesAfter(gps_types, Len(gps_types)),
         mapping |-> [idx \in 0..(Len(gps_types) - 1) |-> ObsLookup(gps_types[idx + 1])]]

-----------------------------------------------------------------------------
(* _write_rinex2_header: the lines written, each with its terminator.      *)

OUT_VERSION_TYPE ==
    <<" "," "," "," "," ","2",".","1","1"," "," "," "," "," "," "," "," "," "," "," ","O","B",
      "S","E","R","V","A","T","I","O","N"," ","D","A","T","A"," "," "," "," ">>
OUT_PROGRAM ==
    <<"p","y","g","a","m","i","t","-","b","r","i","d","g","e">>
OUT_WAVELENGTH ==
    <<" "," "," "," "," ","1"," "," "," "," "," ","1">>

\* One # / TYPES OF OBSERV line: the count on the first only, then up to
\* TypesPerLine types of 6 columns each.
RECURSIVE TypeSlots(_, _, _)
TypeSlots(types, start, end) ==
    IF start >= end THEN <<>>
    ELSE RJust(types[start + 1], 6) \o TypeSlots(types, start + 1, end)

\* TypesLine, had the count been repeated on every line of the record.
TypesLine_CountOnEach(types, line_idx) ==
    LET num == Len(types)
        start == line_idx * TypesPerLine
        end == Min(start + TypesPerLine, num)
        obs_line == FmtInt(num, 6) \o TypeSlots(types, start, end)
    IN  LJust(obs_line, 60) \o LBL_TYPES_OBSERV \o <<NL>>

TypesLine(types, line_idx) ==
    LET num == Len(types)
        start == line_idx * TypesPerLine
        end == Min(start + TypesPerLine, num)
        obs_line == (IF line_idx = 0 THEN FmtInt(num, 6) ELSE Blanks(6))
                    \o TypeSlots(types, start, end)
    IN  LJust(obs_line, 60) \o LBL_TYPES_OBSERV \o <<NL>>

\* TypesLines, had the record never been continued on a second line.
TypesLines_FirstOnly(types) ==
    [line_idx \in 1..Min(1, Len(types)) |-> TypesLine(types, line_idx - 1)]

TypesLines(types) ==
    LET lines_needed == (Len(types) + 8) \div TypesPerLine
    IN  [line_idx \in 1..lines_needed |-> TypesLine(types, line_idx - 1)]

Triple14_4f(v) == FmtFixed(v[1], 14, 4) \o FmtFixed(v[2], 14, 4) \o FmtFixed(v[3], 14, 4)

\* WriteRinex2Header, had the wavelength record been written after the code
\* list.
WriteRinex2Header_TypesFirst(h, types) ==
    <<OUT_VERSION_TYPE \o LJust(<<"G">>, 20) \o LBL_VERSION \o <<NL>>,
      LJust(OUT_PROGRAM, 20) \o Blanks(20) \o Blanks(20) \o LBL_PGM \o <<NL>>,
      LJust(h.marker_name, 60) \o LBL_MARKER_NAME \o <<NL>>>>
    \o (IF h.marker_number # <<>>
        THEN <<LJust(h.marker_number, 60) \o LBL_MARKER_NUMBER \o <<NL>>>>
        ELSE <<>>)
    \o <<LJust(h.observer, 20) \o LJust(h.agency, 40) \o LBL_OBSERVER \o <<NL>>,
         LJust(h.receiver.serial, 20) \o LJust(h.receiver.type, 20)
            \o LJust(h.receiver.version, 20) \o LBL_REC \o <<NL>>,
         LJust(h.antenna.serial, 20) \o LJust(h.antenna.type, 20) \o Blanks(20)
            \o LBL_ANT \o <<NL>>,
         Triple14_4f(h.approx_pos) \o Blanks(18) \o LBL_POS \o <<NL>>,
         Triple14_4f(h.antenna.delta) \o Blanks(18) \o LBL_DELTA \o <<NL>>>>
    \o TypesLines(types)
    \o <<OUT_WAVELENGTH \o Blanks(48) \o LBL_WAVELENGTH \o <<NL>>>>
    \o <<FmtFixed(h.interval, 10, 3) \o Blanks(50) \o LBL_INTERVAL \o <<NL>>>>
    \o (IF h.time_first # <<>>
        THEN <<LJust(h.time_first, 60) \o LBL_TIME_FIRST \o <<NL>>>>
        ELSE <<>>)
    \o (IF h.time_last # <<>>
        THEN <<LJust(h.time_last, 60) \o LBL_TIME_LAST \o <<NL>>>>
        ELSE <<>>)
    \o <<Blanks(60) \o LBL_END \o <<NL>>>>

WriteRinex2Header(h, types) ==
    <<OUT_VERSION_TYPE \o LJust(<<"G">>, 20) \o LBL_VERSION \o <<NL>>,
      LJust(OUT_PROGRAM, 20) \o Blanks(20) \o Blanks(20) \o LBL_PGM \o <<NL>>,
      LJust(h.marker_name, 60) \o LBL_MARKER_NAME \o <<NL>>>>
    \o (IF h.marker_number # <<>>
        THEN <<LJust(h.marker_number, 60) \o LBL_MARKER_NUMBER \o <<NL>>>>
        ELSE <<>>)
    \o <<LJust(h.observer, 20) \o LJust(h.agency, 40) \o LBL_OBSERVER \o <<NL>>,
         LJust(h.receiver.serial, 20) \o LJust(h.receiver.type, 20)
            \o LJust(h.receiver.version, 20) \o LBL_REC \o <<NL>>,
         LJust(h.antenna.serial, 20) \o LJust(h.antenna.type, 20) \o Blanks(20)
            \o LBL_ANT \o <<NL>>,
         Triple14_4f(h.approx_pos) \o Blanks(18) \o LBL_POS \o <<NL>>,
         Triple14_4f(h.antenna.delta) \o Blanks(18) \o LBL_DELTA \o <<NL>>,
         OUT_WAVELENGTH \o Blanks(48) \o LBL_WAVELENGTH \o <<NL>>>>
    \o TypesLines(types)
    \o <<FmtFixed(h.interval, 10, 3) \o Blanks(50) \o LBL_INTERVAL \o <<NL>>>>
    \o (IF h.time_first # <<>>
        THEN <<LJust(h.time_first, 60) \o LBL_TIME_FIRST \o <<NL>>>>
        ELSE <<>>)
    \o (IF h.time_last # <<>>
        THEN <<LJust(h.time_last, 60) \o LBL_TIME_LAST \o <<NL>>>>
        ELSE <<>>)
    \o <<Blanks(60) \o LBL_END \o <<NL>>>>

-----------------------------------------------------------------------------
(* _convert_data                                                           *)

\* The try block of an epoch line: every int() and float() succeeds.
EpochOk(line) ==
    /\ IntOk(Slice(line, 2, 6))
    /\ IntOk(Slice(line, 7, 9))
    /\ IntOk(Slice(line, 10, 12))
    /\ IntOk(Slice(line, 13, 15))
    /\ IntOk(Slice(line, 16, 18))
    /\ FloatOk(Slice(line, 18, 29))
    /\ IntOk(Slice(line, 29, 32))
    /\ IntOk(Slice(line, 32, 35))

EpochFields(line) ==
    [yr |-> IntVal(Slice(line, 2, 6)),
     mo |-> IntVal(Slice(line, 7, 9)),
     dy |-> IntVal(Slice(line, 10, 12)),
     hr |-> IntVal(Slice(line, 13, 15)),
     mn |-> IntVal(Slice(line, 16, 18)),
     sc |-> FloatVal(Slice(line, 18, 29)),
     flag |-> IntVal(Slice(line, 29, 32)),
     num_sats |-> IntVal(Slice(line, 32, 35))]

NoEpoch == [yr |-> 0, mo |-> 0, dy |-> 0, hr |-> 0, mn |-> 0, sc |-> 0, flag |-> 0,
            num_sats |-> 0]

\* sat_id = sat_line[0:3].strip()
SatId(sat_line) == Strip(Slice(sat_line, 0, SatIdWidth))

\* The values list of a satellite line: one slice per declared GPS type, 16
\* blanks where the line has ended before the slice starts.
SatValues(sat_line, ntypes) ==
    [n \in 1..ntypes |->
        LET start_pos == SatIdWidth + (n - 1) * FieldWidth
        IN  IF start_pos < Len(sat_line)
            THEN Slice(sat_line, start_pos, start_pos + FieldWidth)
            ELSE Blanks(FieldWidth)]

\* The epoch header text, continuation lines included, without the final
\* terminator.
\* SatList, had the line been broken after every twelfth id, the last one
\* included.
RECURSIVE SatList_BreakAfterLast(_, _)
SatList_BreakAfterLast(ids, k) ==
    IF k = 0 THEN <<>>
    ELSE SatList_BreakAfterLast(ids, k - 1) \o RJust(ids[k], 3)
         \o (IF k % SatsPerLine = 0 THEN <<NL>> \o Blanks(32) ELSE <<>>)

RECURSIVE SatList(_, _)
SatList(ids, k) ==
    IF k = 0 THEN <<>>
    ELSE SatList(ids, k - 1) \o RJust(ids[k], 3)
         \o (IF k % SatsPerLine = 0 /\ k < Len(ids) THEN <<NL>> \o Blanks(32) ELSE <<>>)

\* EpochHeader, had the count field been the declared num_sats.
EpochHeader_DeclaredCount(e, ids) ==
    <<" ">> \o FmtInt(e.yr % 100, 2) \o <<" ">> \o FmtInt(e.mo, 2) \o <<" ">>
    \o FmtInt(e.dy, 2) \o <<" ">> \o FmtInt(e.hr, 2) \o <<" ">> \o FmtInt(e.mn, 2)
    \o FmtFixed(e.sc, 11, 7) \o <<" ", " ">> \o FmtInt(e.flag, 1) \o FmtInt(e.num_sats, 3)
    \o SatList(ids, Len(ids))

EpochHeader(e, ids) ==
    <<" ">> \o FmtInt(e.yr % 100, 2) \o <<" ">> \o FmtInt(e.mo, 2) \o <<" ">>
    \o FmtInt(e.dy, 2) \o <<" ">> \o FmtInt(e.hr, 2) \o <<" ">> \o FmtInt(e.mn, 2)
    \o FmtFixed(e.sc, 11, 7) \o <<" ", " ">> \o FmtInt(e.flag, 1) \o FmtInt(Len(ids), 3)
    \o SatList(ids, Len(ids))

\* The value emitted for one RINEX 2 type: that of the first source index
\* mapped to it, 16 blanks when there is none or it lies beyond the values.
FirstIndex(map, ntypes, rnx2_type) ==
    LET hits == {idx \in 0..(ntypes - 1) : map[idx] = rnx2_type}
    IN  IF hits = {} THEN 0 - 1 ELSE CHOOSE idx \in hits : \A m \in hits : idx <= m

\* Rnx2Values, had a value been taken for every mapped source index.
Rnx2Values_PerSource(values, types, map, ntypes) ==
    LET mapped == {idx \in 0..(ntypes - 1) : map[idx] # None}
    IN  [n \in 1..Cardinality(mapped) |->
            values[(CHOOSE idx \in mapped : Cardinality({m \in mapped : m <= idx}) = n) + 1]]

Rnx2Values(values, types, map, ntypes) ==
    [n \in 1..Len(types) |->
        LET idx == FirstIndex(map, ntypes, types[n])
        IN  IF idx >= 0 /\ idx < Len(values) THEN values[idx + 1] ELSE Blanks(FieldWidth)]

\* One value as written: numeric part, loss-of-lock indicator, signal
\* strength.
ObsField(val) ==
    LET val_str == IF Len(val) > 0 THEN RStrip(val) ELSE <<>>
    IN  IF Len(val_str) >= 14
        THEN Slice(val_str, 0, 14)
             \o (IF Len(val_str) > 14 THEN Slice(val_str, 14, 15) ELSE <<" ">>)
             \o (IF Len(val_str) > 15 THEN Slice(val_str, 15, 16) ELSE <<" ">>)
        ELSE IF Len(val_str) > 0
        THEN RJust(val_str, 14) \o <<" ", " ">>
        ELSE Blanks(14) \o <<" ", " ">>

\* ObsLines, had what is left after the last fifth value been written even
\* when nothing is left.
RECURSIVE ObsLines_AlwaysTail(_, _, _)
ObsLines_AlwaysTail(vals, k, obs_line) ==
    IF k > Len(vals)
    THEN <<obs_line \o <<NL>>>>
    ELSE LET grown == obs_line \o ObsField(vals[k])
         IN  IF k % ObsPerLine = 0
             THEN <<grown \o <<NL>>>> \o ObsLines_AlwaysTail(vals, k + 1, <<>>)
             ELSE ObsLines_AlwaysTail(vals, k + 1, grown)

\* The observation lines written for one satellite: a line after every
\* fifth value, and one for what is left.
RECURSIVE ObsLines(_, _, _)
ObsLines(vals, k, obs_line) ==
    IF k > Len(vals)
    THEN IF obs_line # <<>> THEN <<obs_line \o <<NL>>>> ELSE <<>>
    ELSE LET grown == obs_line \o ObsField(vals[k])
         IN  IF k % ObsPerLine = 0
             THEN <<grown \o <<NL>>>> \o ObsLines(vals, k + 1, <<>>)
             ELSE ObsLines(vals, k + 1, grown)

\* A written text as the lines it adds to the file.
RECURSIVE TextLines(_)
TextLines(text) ==
    IF text = <<>> THEN <<>>
    ELSE LET nls == {k \in 1..Len(text) : text[k] = NL}
             cut == IF nls = {} THEN Len(text) ELSE CHOOSE k \in nls : \A m \in nls : k <= m
         IN  <<SubSeq(text, 1, cut)>> \o TextLines(SubSeq(text, cut + 1, Len(text)))

-----------------------------------------------------------------------------
(* convert_rinex3_to_rinex2 and the loops it runs, one step at a time.     *)

\* open(input_file, 'r', errors='replace'): an undecodable byte reads as U+FFFD.
DecodeLine(raw) == [k \in 1..Len(raw) |-> IF raw[k] = BadByte THEN ReplacementChar ELSE raw[k]]
Decode(raw) == [n \in 1..Len(raw) |-> DecodeLine(raw[n])]

\* not lines[0][0:9].strip().startswith('3') decides the copy.
IsRinex3(ls) == StartsWith(Strip(Slice(ls[1], 0, 9)), "3")

\* Copy2, had the copy been written back from the decoded lines.
Copy2_Decoded(raw) == Decode(raw)

\* shutil.copy2: the bytes of the source.
Copy2(raw) == raw

Absent == [exists |-> FALSE, content |-> <<>>]

RECURSIVE Concat(_)
Concat(ss) == IF ss = <<>> THEN <<>> ELSE Head(ss) \o Concat(Tail(ss))

GpsTypes(h) == DictGet(h.obs_types, "G")

walk == <<epoch, j, sats, sat_data>>
maps == <<rnx2_types, mapping>>
outs == <<outFile, outOpened, emitted>>

\* lines[0] of an empty file: IndexError.
RaiseIndexError ==
    /\ pc = "start"
    /\ Decode(inRaw) = <<>>
    /\ lines' = Decode(inRaw)
    /\ result' = "IndexError"
    /\ pc' = "done"
    /\ UNCHANGED <<inRaw, other, outBefore, outs, header, i, maps, walk>>

PassThrough ==
    /\ pc = "start"
    /\ Decode(inRaw) # <<>>
    /\ ~IsRinex3(Decode(inRaw))
    /\ lines' = Decode(inRaw)
    /\ outFile' = [exists |-> TRUE, content |-> Copy2(inRaw)]
    /\ outOpened' = TRUE
    /\ result' = "True"
    /\ pc' = "done"
    /\ UNCHANGED <<inRaw, other, outBefore, emitted, header, i, maps, walk>>

\* BeginParse, had the header dict been one object shared by the calls: a
\* marker number set by another call is still in it.
BeginParse_SharedHeader ==
    /\ pc = "start"
    /\ Decode(inRaw) # <<>>
    /\ IsRinex3(Decode(inRaw))
    /\ lines' = Decode(inRaw)
    /\ header' = IF \E k \in 1..Len(other) : other[k].header.marker_number # <<>>
                 THEN [InitialHeader EXCEPT !.marker_number =
                         other[CHOOSE k \in 1..Len(other) :
                                  other[k].header.marker_number # <<>>].header.marker_number]
                 ELSE InitialHeader
    /\ i' = 0
    /\ pc' = "parse"
    /\ UNCHANGED <<inRaw, other, outBefore, outs, result, maps, walk>>

BeginParse ==
    /\ pc = "start"
    /\ Decode(inRaw) # <<>>
    /\ IsRinex3(Decode(inRaw))
    /\ lines' = Decode(inRaw)
    /\ header' = InitialHeader
    /\ i' = 0
    /\ pc' = "parse"
    /\ UNCHANGED <<inRaw, other, outBefore, outs, result, maps, walk>>

\* _parse_rinex3_header as one call: the header it returns for the lines ls
\* when started at index idx with header h, and whether it returns at all
\* (int() of a SYS / # / OBS TYPES count may raise).
RECURSIVE ParseHeader(_, _, _)
ParseHeader(h, ls, idx) ==
    IF idx >= Len(ls) THEN [header |-> h, raised |-> FALSE]
    ELSE LET step == ParseStep(h, ls, idx)
         IN  IF step.end = "next" THEN ParseHeader(step.header, ls, step.i)
             ELSE [header |-> step.header, raised |-> step.end = "ValueError"]

\* A numeric record whose float() raises ValueError: a component of APPROX
\* POSITION XYZ or ANTENNA: DELTA H/E/N, or the INTERVAL.
BadNumber(line) ==
    \/ Label(line) \in {LBL_POS, LBL_DELTA} /\ ~TripleOk(line)
    \/ Label(line) = LBL_INTERVAL /\ ~FloatOk(Slice(line, 0, 10))

\* ParseLine, had the ValueError of float() not been caught in the loop.
ParseLine_UncaughtFloat ==
    /\ pc = "parse"
    /\ i < Len(lines)
    /\ LET step == ParseStep(header, lines, i)
           bad == BadNumber(lines[i + 1])
       IN  /\ header' = step.header
           /\ i' = IF bad THEN i ELSE step.i
           /\ pc' = CASE bad -> "done"
                      [] step.end = "next" -> "parse"
                      [] step.end = "break" -> "map"
                      [] OTHER -> "done"
           /\ result' = IF bad \/ step.end = "ValueError" THEN "ValueError" ELSE result
    /\ UNCHANGED <<inRaw, other, outBefore, outs, lines, maps, walk>>

\* One pass of the while loop of _parse_rinex3_header.
ParseLine ==
    /\ pc = "parse"
    /\ i < Len(lines)
    /\ LET step == ParseStep(header, lines, i)
       IN  /\ header' = step.header
           /\ i' = step.i
           /\ pc' = CASE step.end = "next" -> "parse"
                      [] step.end = "break" -> "map"
                      [] OTHER -> "done"
           /\ result' = IF step.end = "ValueError" THEN "ValueError" ELSE result
    /\ UNCHANGED <<inRaw, other, outBefore, outs, lines, maps, walk>>

\* The while loop runs out of lines: the header is returned as it stands.
ParseEndOfInput ==
    /\ pc = "parse"
    /\ i >= Len(lines)
    /\ pc' = "map"
    /\ UNCHANGED <<inRaw, other, outBefore, outs, result, lines, header, i, maps, walk>>

BuildMapping ==
    /\ pc = "map"
    /\ rnx2_types' = BuildObsTypeMapping(header).rnx2_types
    /\ mapping' = BuildObsTypeMapping(header).mapping
    /\ pc' = "mapped"
    /\ UNCHANGED <<inRaw, other, outBefore, outs, result, lines, header, i, walk>>

\* if not rnx2_types: return False
ReturnFalse ==
    /\ pc = "mapped"
    /\ rnx2_types = <<>>
    /\ result' = "False"
    /\ pc' = "done"
    /\ UNCHANGED <<inRaw, other, outBefore, outs, lines, header, i, maps, walk>>

\* open(output_file, 'w') and _write_rinex2_header; _convert_data starts at
\* header_end_line + 1.
WriteHeader ==
    /\ pc = "mapped"
    /\ rnx2_types # <<>>
    /\ outFile' = [exists |-> TRUE, content |-> WriteRinex2Header(header, rnx2_types)]
    /\ outOpened' = TRUE
    /\ i' = header.header_end_line + 1
    /\ pc' = "scan"
    /\ UNCHANGED <<inRaw, other, outBefore, emitted, result, lines, header, maps, walk>>

\* A line that does not start an epoch.
ScanSkip ==
    /\ pc = "scan"
    /\ i < Len(lines)
    /\ ~StartsWith(lines[i + 1], ">")
    /\ i' = i + 1
    /\ UNCHANGED <<inRaw, other, outBefore, outs, pc, result, lines, header, maps, walk>>

\* ScanMalformed, had the except clause ended the loop instead of skipping
\* the line.
ScanMalformed_Abort ==
    /\ pc = "scan"
    /\ i < Len(lines)
    /\ StartsWith(lines[i + 1], ">")
    /\ ~EpochOk(lines[i + 1])
    /\ i' = Len(lines)
    /\ UNCHANGED <<inRaw, other, outBefore, outs, pc, result, lines, header, maps, walk>>

\* An epoch line whose fields do not parse: except (ValueError, IndexError).
ScanMalformed ==
    /\ pc = "scan"
    /\ i < Len(lines)
    /\ StartsWith(lines[i + 1], ">")
    /\ ~EpochOk(lines[i + 1])
    /\ i' = i + 1
    /\ UNCHANGED <<inRaw, other, outBefore, outs, pc, result, lines, header, maps, walk>>

\* A well-formed epoch line; "at" remembers its index (not a variable of the
\* code).
EpochStart ==
    /\ pc = "scan"
    /\ i < Len(lines)
    /\ StartsWith(lines[i + 1], ">")
    /\ EpochOk(lines[i + 1])
    /\ epoch' = [fields |-> EpochFields(lines[i + 1]), at |-> i]
    /\ j' = 0
    /\ sats' = <<>>
    /\ sat_data' = EmptyDict
    /\ pc' = "collect"
    /\ UNCHANGED <<inRaw, other, outBefore, outs, result, lines, header, i, maps>>

\* CollectSat, had a line of another constellation not been counted among
\* the num_sats lines of the epoch.
CollectSat_CountsRetained ==
    /\ pc = "collect"
    /\ j < epoch.fields.num_sats
    /\ i + 1 < Len(lines)
    /\ i' = i + 1
    /\ LET sat_line == lines[i + 2]
           sat_id == SatId(sat_line)
       IN  IF StartsWith(sat_id, "G")
           THEN /\ sats' = Append(sats, sat_id)
                /\ sat_data' = DictPut(sat_data, Join(sat_id),
                                       SatValues(sat_line, Len(GpsTypes(header))))
                /\ j' = j + 1
           ELSE UNCHANGED <<sats, sat_data, j>>
    /\ UNCHANGED <<inRaw, other, outBefore, outs, pc, result, lines, header, maps, epoch>>

\* One pass of for j in range(num_sats) that reads a line.
CollectSat ==
    /\ pc = "collect"
    /\ j < epoch.fields.num_sats
    /\ i + 1 < Len(lines)
    /\ i' = i + 1
    /\ j' = j + 1
    /\ LET sat_line == lines[i + 2]
           sat_id == SatId(sat_line)
       IN  IF StartsWith(sat_id, "G")
           THEN /\ sats' = Append(sats, sat_id)
                /\ sat_data' = DictPut(sat_data, Join(sat_id),
                                       SatValues(sat_line, Len(GpsTypes(header))))
           ELSE UNCHANGED <<sats, sat_data>>
    /\ UNCHANGED <<inRaw, other, outBefore, outs, pc, result, lines, header, maps, epoch>>

\* The pass that finds the input ended: break.
CollectBreak ==
    /\ pc = "collect"
    /\ j < epoch.fields.num_sats
    /\ i + 1 >= Len(lines)
    /\ i' = i + 1
    /\ pc' = "collected"
    /\ UNCHANGED <<inRaw, other, outBefore, outs, result, lines, header, maps, epoch, j, sats,
                   sat_data>>

LoopOver == (pc = "collect" /\ j >= epoch.fields.num_sats) \/ pc = "collected"

\* DropEpoch, had the line index been left where the collection ended.
DropEpoch_NoAdvance ==
    /\ LoopOver
    /\ sats = <<>>
    /\ pc' = "scan"
    /\ UNCHANGED <<inRaw, other, outBefore, outs, result, lines, header, i, maps, walk>>

\* if not sats: i += 1; continue
DropEpoch ==
    /\ LoopOver
    /\ sats = <<>>
    /\ i' = i + 1
    /\ pc' = "scan"
    /\ UNCHANGED <<inRaw, other, outBefore, outs, result, lines, header, maps, walk>>

KeepEpoch ==
    /\ LoopOver
    /\ sats # <<>>
    /\ pc' = "emit"
    /\ UNCHANGED <<inRaw, other, outBefore, outs, result, lines, header, i, maps, walk>>

\* What is written for the epoch: the header text, then for each listed
\* satellite the observation lines of sat_data[sat].
EpochOutput(e, ids, data, types, map, ntypes) ==
    [at |-> e.at,
     ids |-> ids,
     hdr |-> TextLines(EpochHeader(e.fields, ids) \o <<NL>>),
     obs |-> [k \in 1..Len(ids) |->
                ObsLines(Rnx2Values(data[Join(ids[k])], types, map, ntypes), 1, <<>>)]]

EmitEpoch ==
    /\ pc = "emit"
    /\ LET o == EpochOutput(epoch, sats, sat_data, rnx2_types, mapping, Len(GpsTypes(header)))
       IN  /\ outFile' = [outFile EXCEPT !.content = @ \o o.hdr \o Concat(o.obs)]
           /\ emitted' = Append(emitted, o)
    /\ i' = i + 1
    /\ pc' = "scan"
    /\ UNCHANGED <<inRaw, other, outBefore, outOpened, result, lines, header, maps, walk>>

\* The while loop of _convert_data is over: the file is closed, return True.
Finish ==
    /\ pc = "scan"
    /\ i >= Len(lines)
    /\ result' = "True"
    /\ pc' = "done"
    /\ UNCHANGED <<inRaw, other, outBefore, outs, lines, header, i, maps, walk>>

Next ==
    \/ RaiseIndexError
    \/ PassThrough
    \/ BeginParse
    \/ ParseLine
    \/ ParseEndOfInput
    \/ BuildMapping
    \/ ReturnFalse
    \/ WriteHeader
    \/ ScanSkip
    \/ ScanMalformed
    \/ EpochStart
    \/ CollectSat
    \/ CollectBreak
    \/ DropEpoch
    \/ KeepEpoch
    \/ EmitEpoch
    \/ Finish

-----------------------------------------------------------------------------
(* The inputs: files built from a vocabulary of lines.                     *)

C_V3 ==
    <<" "," "," "," "," ","3",".","0","4"," "," "," "," "," "," "," "," "," "," "," ","O","B",
      "S","E","R","V","A","T","I","O","N"," ","D","A","T","A"," "," "," "," ","M">>
C_V2 ==
    <<" "," "," "," "," ","2",".","1","1"," "," "," "," "," "," "," "," "," "," "," ","O","B",
      "S","E","R","V","A","T","I","O","N"," ","D","A","T","A"," "," "," "," ","G">>
C_MARKER3 ==
    <<"3","A","B","C">>
C_MARKER ==
    <<"A","B","C","D">>
C_G4 ==
    <<"G"," "," "," "," ","4"," ","C","1","C"," ","L","1","C"," ","C","1","S"," ","X","9","Z">>
C_G3_SHORT ==
    <<"G"," "," "," "," ","3"," ","L","1","C"," ","C","1","W">>
C_CONT ==
    <<" "," "," "," "," "," "," ","L","2","W"," ","S","2","W">>
C_G_UNMAPPED ==
    <<"G"," "," "," "," ","2"," ","X","9","Z"," ","C","1">>
C_R_SHORT ==
    <<"R"," "," "," "," ","2"," ","C","1","C">>
C_R_BADCOUNT ==
    <<"R"," "," "," ","x","x"," ","C","1","C"," ","L","1","C">>
C_INTERVAL ==
    <<" "," "," "," "," ","1",".","0","0","0">>
EPOCH_1 ==
    <<">"," ","2","0","2","0"," ","0","1"," ","1","5"," ","0","0"," ","0","0"," "," ","0",".",
      "0","0","0","0","0","0","0"," "," ","0"," "," ","1",NL>>
EPOCH_2 ==
    <<">"," ","2","0","2","0"," ","0","1"," ","1","5"," ","0","0"," ","0","0"," ","3","0",".",
      "0","0","0","0","0","0","0"," "," ","0"," "," ","2",NL>>
EPOCH_13 ==
    <<">"," ","2","0","2","0"," ","0","1"," ","1","5"," ","0","0"," ","0","1"," "," ","0",".",
      "0","0","0","0","0","0","0"," "," ","0"," ","1","3",NL>>
EPOCH_BAD ==
    <<">"," ","2","0","2","0"," ","0","x"," ","1","5"," ","0","0"," ","0","1"," ","3","0",".",
      "0","0","0","0","0","0","0"," "," ","0"," "," ","1",NL>>
EPOCH_CUT ==
    <<">"," ","2","0","2","0"," ","0","1"," ","1","5"," ","0","0"," ","0","2",NL>>
SAT_G01 ==
    <<"G","0","1"," "," ","2","0","0","0","0","0","0","1",".","1","2","3"," "," "," ","1","0",
      "5","0","0","0","0","0","1",".","4","5","6","1","7"," "," ","2","0","0","0","0","0","0",
      "1",".","7","8","9"," ","6"," "," "," "," "," "," "," "," "," ","1",".","5","0","0"," ",
      " ",NL>>
SAT_G01_B ==
    <<"G","0","1"," "," ","2","0","0","0","0","0","0","9",".","1","2","3"," "," "," ","1","0",
      "5","0","0","0","0","0","9",".","4","5","6"," ","8",NL>>
SAT_G02_SHORT ==
    <<"G","0","2"," "," ","2","0","0","0","0","0","0","2",".","1","2","3"," "," "," ","1","0",
      "5","0","0","0","0","0","2",NL>>
SAT_R05 ==
    <<"R","0","5"," "," ","2","0","0","0","0","0","0","5",".","1","2","3"," "," "," ","1","0",
      "5","0","0","0","0","0","5",".","4","5","6"," ","5",NL>>
SAT_NO_EOL ==
    <<"G","0","3"," "," ","2","0","0","0","0","0","0","3",".","1","2","3"," ","9">>
OLD_OUTPUT ==
    <<"o","l","d"," ","o","u","t","p","u","t",NL>>

\* A header line: content in columns 0-59, then the label.
HLine(content, label) == LJust(content, LabelCol) \o label \o <<NL>>

H_V3 == HLine(C_V3, LBL_VERSION)
H_V2 == HLine(C_V2, LBL_VERSION)
\* A marker name with an undecodable byte in it.
H_MARKER == HLine(<<"A", "B", BadByte, "D">>, LBL_MARKER_NAME)
H_MARKER3 == HLine(C_MARKER3, LBL_MARKER_NAME)
H_G4 == HLine(C_G4, LBL_SYS_OBS)
H_G3_SHORT == HLine(C_G3_SHORT, LBL_SYS_OBS)
H_CONT == HLine(C_CONT, LBL_SYS_OBS)
H_G_UNMAPPED == HLine(C_G_UNMAPPED, LBL_SYS_OBS)
H_R_SHORT == HLine(C_R_SHORT, LBL_SYS_OBS)
H_R_BADCOUNT == HLine(C_R_BADCOUNT, LBL_SYS_OBS)
H_INTERVAL == HLine(C_INTERVAL, LBL_INTERVAL)
H_END == HLine(<<>>, LBL_END)

\* A satellite line that is only an id.
TinySat(n) == <<"G">> \o (IF n < 10 THEN <<"0">> ELSE <<>>) \o NatStr(n) \o <<NL>>

MaxHdrLines == 3
MaxEpochs == 3
MaxCodes == 4

SeqsUpTo(S, n) == UNION {[1..k -> S] : k \in 0..n}

FirstLines == {H_V3, H_V2, H_MARKER, H_MARKER3}
HeaderVocab == {H_G4, H_G3_SHORT, H_CONT, H_G_UNMAPPED, H_R_SHORT, H_R_BADCOUNT, H_END}

BlockVocab ==
    {<<EPOCH_1, SAT_G01>>,
     <<EPOCH_2, SAT_G02_SHORT, SAT_R05>>,
     <<EPOCH_1, SAT_R05>>,
     <<EPOCH_BAD, SAT_G01_B>>,
     <<EPOCH_CUT, SAT_G01, SAT_R05>>,
     <<EPOCH_2, SAT_G01_B>>,
     <<EPOCH_2, SAT_G01, SAT_G01_B>>,
     <<EPOCH_13>> \o [n \in 1..13 |-> TinySat(n)]}

\* A data section that takes every path of _convert_data.
CoverData ==
    <<EPOCH_1, SAT_G01, EPOCH_BAD, SAT_G01_B, EPOCH_1, SAT_R05, EPOCH_2, SAT_NO_EOL>>

HeaderFiles ==
    {<<>>} \cup
    {<<first>> \o body \o data :
        first \in FirstLines, body \in SeqsUpTo(HeaderVocab, MaxHdrLines),
        data \in {<<>>, <<EPOCH_1, SAT_G01>>}}

DataFiles ==
    {<<H_V3, H_MARKER, H_G4, H_INTERVAL, H_END>> \o Concat(bs) :
        bs \in SeqsUpTo(BlockVocab, MaxEpochs)}

\* Observation codes, and a SYS / # / OBS TYPES line declaring a list of them
\* for G.
C1C == <<"C", "1", "C">>
C1S == <<"C", "1", "S">>
C1W == <<"C", "1", "W">>
L1C == <<"L", "1", "C">>
X9Z == <<"X", "9", "Z">>
D1C == <<"D", "1", "C">>
S1C == <<"S", "1", "C">>
C2C == <<"C", "2", "C">>
C2W == <<"C", "2", "W">>
L2C == <<"L", "2", "C">>
L2W == <<"L", "2", "W">>
D2C == <<"D", "2", "C">>
S2C == <<"S", "2", "C">>
C5X == <<"C", "5", "X">>

GDecl(codes) ==
    HLine(<<"G", " ", " ">> \o FmtInt(Len(codes), 3)
          \o Concat([k \in 1..Len(codes) |-> <<" ">> \o codes[k]]), LBL_SYS_OBS)

CodeVocab == {C1C, C1S, C1W, L1C, X9Z}
\* Seven source codes for six RINEX 2 types, twelve for eleven.
SevenCodes == <<C1C, L1C, D1C, S1C, C2W, L2W, C1S>>
TwelveCodes == <<C1C, C1W, L1C, D1C, S1C, C2C, C2W, L2C, D2C, S2C, C1S, C5X>>

MapFiles ==
    {<<H_V3, GDecl(codes), H_END>> : codes \in SeqsUpTo(CodeVocab, MaxCodes)}
    \cup {<<H_V3, GDecl(SevenCodes), H_END, EPOCH_1, SAT_G01>>,
          <<H_V3, GDecl(TwelveCodes), H_END, EPOCH_1, SAT_G01>>}

WideFiles ==
    {<<H_V3, GDecl(SevenCodes), H_END>> \o Concat(bs) : bs \in SeqsUpTo(BlockVocab, 1)}

\* An epoch line declaring n satellites, and an epoch of n G satellites
\* followed by one of another constellation.
EpochDecl(n) == SubSeq(EPOCH_13, 1, 32) \o FmtInt(n, 3) \o <<NL>>
SatBlock(n) == <<EpochDecl(n + 1)>> \o [k \in 1..n |-> TinySat(k)] \o <<SAT_R05>>
MaxSats == 25
LongFiles ==
    {<<H_V3, H_G4, H_END>> \o SatBlock(n - 1) \o SatBlock(n) : n \in 1..MaxSats}

\* Header records of several kinds, in every order.
H_NUMBER == HLine(<<"0", "0", "4", "2">>, LBL_MARKER_NUMBER)
H_OBSERVER == HLine(LJust(<<"O", "B", "S">>, 20) \o <<"A", "G", "Y">>, LBL_OBSERVER)
H_POS == HLine(Triple14_4f(<<123 * Pow10(FracDigits), 0 - 5 * Pow10(FracDigits - 1), 0>>),
               LBL_POS)
H_TIME_FIRST == HLine(<<" ", " ", "2", "0", "2", "0", " ", " ", " ", " ", " ", "1">>,
                      LBL_TIME_FIRST)
H_TIME_LAST == HLine(<<" ", " ", "2", "0", "2", "0", " ", " ", " ", " ", " ", "2">>,
                     LBL_TIME_LAST)
LayoutVocab == {H_MARKER3, H_NUMBER, H_OBSERVER, H_POS, H_TIME_FIRST, H_TIME_LAST, H_G4}
MaxRecords == 4
Distinct(s) == \A a, b \in 1..Len(s) : s[a] = s[b] => a = b
LayoutFiles ==
    {<<H_V3>> \o body \o <<H_END, EPOCH_1, SAT_G01>> :
        body \in {s \in SeqsUpTo(LayoutVocab, MaxRecords) : Distinct(s)}}

\* Numeric records: two positions, an antenna offset and an interval that
\* parse, and one of each kind that does not (an 'x' in the second or third
\* component, a blank interval).
Spoil(s, k) == [s EXCEPT ![k] = "x"]
C_POS_2 == Triple14_4f(<<7 * Pow10(FracDigits), 8 * Pow10(FracDigits), 9 * Pow10(FracDigits)>>)
C_DELTA == Triple14_4f(<<15 * Pow10(FracDigits - 1), 0, 2 * Pow10(FracDigits - 1)>>)
H_POS_2 == HLine(C_POS_2, LBL_POS)
H_POS_BAD == HLine(Spoil(C_POS_2, 25), LBL_POS)
H_DELTA == HLine(C_DELTA, LBL_DELTA)
H_DELTA_BAD == HLine(Spoil(C_DELTA, 40), LBL_DELTA)
H_INTERVAL_BAD == HLine(<<>>, LBL_INTERVAL)
NumberVocab == {H_POS, H_POS_2, H_POS_BAD, H_DELTA, H_DELTA_BAD, H_INTERVAL, H_INTERVAL_BAD}
MaxNumbers == 3
NumberFiles ==
    {<<H_V3>> \o body \o <<H_G4, H_END, EPOCH_1, SAT_G01>> :
        body \in SeqsUpTo(NumberVocab, MaxNumbers)}

\* Files whose first two lines are version records of either version or
\* marker names (one of them starting with a 3).
VersionFiles ==
    {<<a, b, H_G4, H_END, EPOCH_1, SAT_G01>> : a, b \in {H_V3, H_V2, H_MARKER3, H_MARKER}}

\* Declarations continued over several lines.
C_G5_SHORT ==
    <<"G"," "," "," "," ","5"," ","C","1","C">>
C_R0 ==
    <<"R"," "," "," "," ","0"," ","C","1","C">>
H_G5_SHORT == HLine(C_G5_SHORT, LBL_SYS_OBS)
H_R0 == HLine(C_R0, LBL_SYS_OBS)
C_G_NEG ==
    <<"G"," "," "," ","-","1"," ","C","1","C"," ","L","1","C">>
H_G_NEG == HLine(C_G_NEG, LBL_SYS_OBS)
MergeFiles ==
    {<<H_V3, H_G5_SHORT, H_CONT, H_CONT, H_CONT, H_END>>,
     <<H_V3, H_G5_SHORT, H_CONT, H_NUMBER, H_CONT, H_END>>,
     <<H_V3, H_G5_SHORT, H_CONT, H_CONT, H_R_SHORT, H_MARKER3, H_END>>,
     <<H_V3, H_R0, H_G3_SHORT, H_CONT, H_R_SHORT, H_END>>,
     <<H_V3, H_G5_SHORT, H_G4, H_R0, H_END, EPOCH_1, SAT_G01>>,
     <<H_V3, H_G_NEG, H_END, EPOCH_1, SAT_G01>>}

\* A G satellite whose first field is blank and whose third is not, under a
\* declaration whose first and third codes are both written as C1.
SAT_G04_BLANK ==
    <<"G", "0", "4">> \o Blanks(16) \o SubSeq(SAT_G01, 20, 35) \o SubSeq(SAT_G01, 4, 19)
    \o <<NL>>
\* Declarations of 5, 10 and 12 codes for 5, 10 and 11 RINEX 2 types.
PickFiles ==
    {<<H_V3, H_G4, H_END, EPOCH_2, SAT_G04_BLANK, SAT_G02_SHORT>>,
     <<H_V3, GDecl(SevenCodes), H_END, EPOCH_2, SAT_G04_BLANK, SAT_G01>>}
    \cup {<<H_V3, GDecl(SubSeq(TwelveCodes, 1, n)), H_END, EPOCH_2, SAT_G01, SAT_G02_SHORT>> :
            n \in {5, 10, 12}}

\* An epoch without a G satellite - of another constellation, or declaring
\* no satellite or less - between two epochs that have one.
EmptyBlocks ==
    {<<EPOCH_1, SAT_R05>>, <<EPOCH_2, SAT_R05, SAT_R05>>, <<EpochDecl(0)>>, <<EpochDecl(0 - 1)>>,
     <<EPOCH_2, SAT_R05>>}
FullBlocks == {<<EPOCH_1, SAT_G01>>, <<EPOCH_2, SAT_G02_SHORT, SAT_G01_B>>}
EmptyFiles ==
    {<<H_V3, H_G4, H_END>> \o before \o empty \o after :
        before \in FullBlocks, empty \in EmptyBlocks, after \in FullBlocks}

CoverFiles ==
    {<<>>, <<H_V2, H_MARKER, H_END, EPOCH_1, SAT_G01>>, <<H_V3, H_G_UNMAPPED, H_END>>,
     <<H_V3, H_R_BADCOUNT>>, <<H_V3, H_G4>>, <<H_V3, H_G3_SHORT, H_CONT, H_INTERVAL, H_END>> \o CoverData}

Existing == [exists |-> TRUE, content |-> <<OLD_OUTPUT, OLD_OUTPUT>>]

\* A call about to start.
Starts(files, outputs) ==
    /\ inRaw \in files
    /\ outFile \in outputs
    /\ outBefore = outFile
    /\ outOpened = FALSE
    /\ pc = "start"
    /\ result = "none"
    /\ lines = <<>>
    /\ header = InitialHeader
    /\ i = 0
    /\ rnx2_types = <<>>
    /\ mapping = EmptyDict
    /\ epoch = [fields |-> NoEpoch, at |-> 0]
    /\ j = 0
    /\ sats = <<>>
    /\ sat_data = EmptyDict
    /\ emitted = <<>>

\* The only call of its process.
InitWith(files, outputs) == Starts(files, outputs) /\ other = <<>>

\* Headers of every shape, over a file at output_file or none.
Init == InitWith(HeaderFiles \cup MergeFiles \cup CoverFiles, {Absent, Existing})
Spec == Init /\ [][Next]_vars

\* Data sections of every shape under one header.
InitData ==
    InitWith(DataFiles \cup WideFiles \cup LongFiles \cup PickFiles \cup EmptyFiles
             \cup CoverFiles, {Absent})
SpecData == InitData /\ [][Next]_vars

\* The same calls, each running on until it returns: a call is one thread of
\* straight-line code and loops, so the step it is at is taken. For the
\* steps that are long to compute, weak fairness is written out (infinitely
\* often not enabled, or infinitely often taken) with the guard of the step
\* as its enabling condition: all their other conjuncts assign.
Fairness ==
    /\ WF_vars(RaiseIndexError) /\ WF_vars(PassThrough) /\ WF_vars(BeginParse)
    /\ WF_vars(ParseEndOfInput) /\ WF_vars(ReturnFalse)
    /\ WF_vars(WriteHeader) /\ WF_vars(ScanSkip)
    /\ WF_vars(CollectSat) /\ WF_vars(CollectBreak) /\ WF_vars(DropEpoch)
    /\ WF_vars(KeepEpoch) /\ WF_vars(Finish)
    /\ ([]<>~(pc = "parse" /\ i < Len(lines)) \/ []<><<ParseLine>>_vars)
    /\ ([]<>~(pc = "map") \/ []<><<BuildMapping>>_vars)
    /\ ([]<>~(pc = "scan" /\ i < Len(lines) /\ StartsWith(lines[i + 1], ">")
                /\ ~EpochOk(lines[i + 1]))
        \/ []<><<ScanMalformed>>_vars)
    /\ ([]<>~(pc = "scan" /\ i < Len(lines) /\ StartsWith(lines[i + 1], ">")
                /\ EpochOk(lines[i + 1]))
        \/ []<><<EpochStart>>_vars)
    /\ ([]<>~(pc = "emit") \/ []<><<EmitEpoch>>_vars)
SpecWalk == InitData /\ [][Next]_vars /\ Fairness

\* The version record on the first line, on the second, on both or on none.
InitVersion == InitWith(VersionFiles \cup CoverFiles, {Absent})
SpecVersion == InitVersion /\ [][Next]_vars

\* Numeric header records, well-formed and not, in every short order.
InitNumbers == InitWith(NumberFiles \cup CoverFiles, {Absent})
SpecNumbers == InitNumbers /\ [][Next]_vars

\* Declarations of every short list of codes.
InitMap == InitWith(MapFiles \cup CoverFiles, {Absent})
SpecMap == InitMap /\ [][Next]_vars

\* Headers whose records come in every order.
InitLayout == InitWith(LayoutFiles \cup CoverFiles, {Absent})
SpecLayout == InitLayout /\ [][Next]_vars

\* Three calls in one process, each on its own pair of files, taking their
\* steps in any order.  The locals of the calls that are not taking a step
\* are kept in other; Switch - a thread switch, or the next call of a
\* sequence - exchanges them with those of the call that steps.
Call(file) ==
    [inRaw |-> file, outFile |-> Absent, outBefore |-> Absent, outOpened |-> FALSE,
     pc |-> "start", result |-> "none", lines |-> <<>>, header |-> InitialHeader, i |-> 0,
     rnx2_types |-> <<>>, mapping |-> EmptyDict, epoch |-> [fields |-> NoEpoch, at |-> 0],
     j |-> 0, sats |-> <<>>, sat_data |-> EmptyDict, emitted |-> <<>>]

Current ==
    [inRaw |-> inRaw, outFile |-> outFile, outBefore |-> outBefore, outOpened |-> outOpened,
     pc |-> pc, result |-> result, lines |-> lines, header |-> header, i |-> i,
     rnx2_types |-> rnx2_types, mapping |-> mapping, epoch |-> epoch,
     j |-> j, sats |-> sats, sat_data |-> sat_data, emitted |-> emitted]

Switch ==
    \E k \in 1..Len(other) :
        /\ other[k].pc # "done"
        /\ other' = [other EXCEPT ![k] = Current]
        /\ inRaw' = other[k].inRaw
        /\ outFile' = other[k].outFile
        /\ outBefore' = other[k].outBefore
        /\ outOpened' = other[k].outOpened
        /\ pc' = other[k].pc
        /\ result' = other[k].result
        /\ lines' = other[k].lines
        /\ header' = other[k].header
        /\ i' = other[k].i
        /\ rnx2_types' = other[k].rnx2_types
        /\ mapping' = other[k].mapping
        /\ epoch' = other[k].epoch
        /\ j' = other[k].j
        /\ sats' = other[k].sats
        /\ sat_data' = other[k].sat_data
        /\ emitted' = other[k].emitted

CallFiles ==
    {<<>>, <<H_V2, H_NUMBER>>, <<H_V3, H_MARKER3, H_G4, H_END, EPOCH_1, SAT_G01>>}
BusyFiles == CoverFiles \cup {<<H_V3, H_NUMBER, H_G4, H_END, EPOCH_2, SAT_G01, SAT_R05>>}

InitCalls ==
    /\ Starts(CallFiles, {Absent})
    /\ other \in {<<Call(busy), Call(file)>> : busy \in BusyFiles, file \in CallFiles}

NextCalls == Next \/ Switch
SpecCalls == InitCalls /\ [][NextCalls]_vars

\* _write_rinex2_header called on its own, on a file opened by the caller:
\* any list of RINEX 2 codes may be passed, longer than the translation
\* table can yield.
TARGETS ==
    <<<<"C","1">>, <<"P","1">>, <<"L","1">>, <<"D","1">>, <<"S","1">>,
      <<"C","2">>, <<"P","2">>, <<"L","2">>, <<"D","2">>, <<"S","2">>,
      <<"C","5">>, <<"L","5">>, <<"D","5">>, <<"S","5">>>>
MaxTypes == 23
MaxShift == 2
TypeList(shift, n) == [k \in 1..n |-> TARGETS[((shift + k - 1) % Len(TARGETS)) + 1]]
WriterHeaders ==
    {InitialHeader,
     [InitialHeader EXCEPT !.marker_number = <<"7">>, !.time_first = <<"2", "0", "2", "0">>]}

InitWriter ==
    /\ inRaw = <<>>
    /\ outFile = [exists |-> TRUE, content |-> <<>>]
    /\ outBefore = outFile
    /\ outOpened = FALSE
    /\ pc = "write_header"
    /\ result = "none"
    /\ lines = <<>>
    /\ header \in WriterHeaders
    /\ i = 0
    /\ rnx2_types \in {TypeList(shift, n) : shift \in 0..MaxShift, n \in 0..MaxTypes}
    /\ mapping = EmptyDict
    /\ epoch = [fields |-> NoEpoch, at |-> 0]
    /\ j = 0
    /\ sats = <<>>
    /\ sat_data = EmptyDict
    /\ emitted = <<>>
    /\ other = <<>>

\* The whole of _write_rinex2_header(f, header, rnx2_types).
CallWriteHeader ==
    /\ pc = "write_header"
    /\ outFile' = [outFile EXCEPT !.content = @ \o WriteRinex2Header(header, rnx2_types)]
    /\ outOpened' = TRUE
    /\ pc' = "header_written"
    /\ UNCHANGED <<inRaw, other, outBefore, emitted, result, lines, header, i, maps, walk>>

NextWriter == CallWriteHeader
SpecWriter == InitWriter /\ [][NextWriter]_vars

-----------------------------------------------------------------------------
(* downloader.py: _wget_download(url, output_file).  The file at            *)
(* output_file is outFile; its content is its size in bytes and the markers *)
(* among its first 512 bytes.                                               *)

MIN_PRODUCT_SIZE == 1000

\* bytes.lower() on the markers a file may start with.
Lower(m) ==
    CASE m = "<HTML" -> "<html"
      [] m = "<!DOCTYPE HTML" -> "<!doctype html"
      [] m = "<Head" -> "<head"
      [] OTHER -> m

\* utils.is_html: one of the three tags, in any case, in the first 512 bytes.
IsHtml(file) ==
    \E k \in 1..Len(file.content.head) :
        Lower(file.content.head[k]) \in {"<!doctype html", "<html", "<head"}

\* What a server may send: sizes on both sides of the threshold, and up to
\* MaxMarkers markers at the start.
Markers == {"data", "<html", "<HTML", "<!DOCTYPE HTML", "<Head", "<body"}
MaxMarkers == 2
Sizes == {0, 1, MIN_PRODUCT_SIZE - 1, MIN_PRODUCT_SIZE, MIN_PRODUCT_SIZE + 1, 5 * MIN_PRODUCT_SIZE}
Bodies == {[fsize |-> n, head |-> h] : n \in Sizes, h \in SeqsUpTo(Markers, MaxMarkers)}
Saved(body) == [exists |-> TRUE, content |-> body]
\* wget -O truncates the file when it opens it; what is there when the
\* transfer is cut is some beginning of the body.
Truncated == Saved([fsize |-> 0, head |-> <<>>])
Beginnings(body) ==
    {Saved([fsize |-> n, head |-> SubSeq(body.head, 1, k)]) :
        n \in {m \in Sizes : m <= body.fsize}, k \in 0..Len(body.head)}

InitWget ==
    /\ inRaw = <<>>
    /\ outFile \in {Absent, Saved([fsize |-> 5 * MIN_PRODUCT_SIZE, head |-> <<"data">>])}
    /\ outBefore = outFile
    /\ outOpened = FALSE
    /\ pc = "run"
    /\ result = "none"
    /\ lines = <<>>
    /\ header = InitialHeader
    /\ i = 0
    /\ rnx2_types = <<>>
    /\ mapping = EmptyDict
    /\ epoch = [fields |-> NoEpoch, at |-> 0]
    /\ j = 0
    /\ sats = <<>>
    /\ sat_data = EmptyDict
    /\ emitted = <<>>
    /\ other = <<>>

\* subprocess.run returns with returncode 0: the body is in the file, and
\* os.path.exists(output_file) holds.
RunExitsZero ==
    /\ pc = "run"
    /\ \E body \in Bodies : outFile' = Saved(body)
    /\ pc' = "check"
    /\ UNCHANGED <<inRaw, other, outBefore, outOpened, emitted, result, lines, header, i, maps,
                   walk>>

\* subprocess.run returns with a returncode other than 0: wget could not
\* open the file (it is as it was), or opened it and got none or some of
\* the body. The if of line 56 fails; nothing is removed.
RunExitsNonZero ==
    /\ pc = "run"
    /\ \E body \in Bodies : outFile' \in {outFile, Truncated} \cup Beginnings(body)
    /\ pc' = "return_false"
    /\ UNCHANGED <<inRaw, other, outBefore, outOpened, emitted, result, lines, header, i, maps,
                   walk>>

\* subprocess.run raises TimeoutExpired after killing wget.
RunTimesOut ==
    /\ pc = "run"
    /\ \E body \in Bodies : outFile' \in {Truncated} \cup Beginnings(body)
    /\ pc' = "except_timeout"
    /\ UNCHANGED <<inRaw, other, outBefore, outOpened, emitted, result, lines, header, i, maps,
                   walk>>

\* subprocess.run raises another exception (no wget to run): the file is
\* as it was.
RunRaises ==
    /\ pc = "run"
    /\ pc' = "except"
    /\ UNCHANGED <<inRaw, other, outBefore, outs, result, lines, header, i, maps, walk>>

\* fsize > MIN_PRODUCT_SIZE and not is_html(output_file): return True
AcceptFile ==
    /\ pc = "check"
    /\ outFile.content.fsize > MIN_PRODUCT_SIZE /\ ~IsHtml(outFile)
    /\ result' = "True"
    /\ pc' = "done"
    /\ UNCHANGED <<inRaw, other, outBefore, outs, lines, header, i, maps, walk>>

\* otherwise os.remove(output_file)
RejectFile ==
    /\ pc = "check"
    /\ ~(outFile.content.fsize > MIN_PRODUCT_SIZE /\ ~IsHtml(outFile))
    /\ outFile' = Absent
    /\ pc' = "return_false"
    /\ UNCHANGED <<inRaw, other, outBefore, outOpened, emitted, result, lines, header, i, maps,
                   walk>>

\* The two except clauses: if os.path.exists(output_file): os.remove(output_file)
RemoveAfterRaise ==
    /\ pc \in {"except_timeout", "except"}
    /\ outFile' = IF outFile.exists THEN Absent ELSE outFile
    /\ pc' = "return_false"
    /\ UNCHANGED <<inRaw, other, outBefore, outOpened, emitted, result, lines, header, i, maps,
                   walk>>

\* return False
WgetReturnsFalse ==
    /\ pc = "return_false"
    /\ result' = "False"
    /\ pc' = "done"
    /\ UNCHANGED <<inRaw, other, outBefore, outs, lines, header, i, maps, walk>>

NextWget ==
    \/ RunExitsZero
    \/ RunExitsNonZero
    \/ RunTimesOut
    \/ RunRaises
    \/ AcceptFile
    \/ RejectFile
    \/ RemoveAfterRaise
    \/ WgetReturnsFalse
SpecWget == InitWget /\ [][NextWget]_vars

-----------------------------------------------------------------------------
(* What the claims speak of, read off the files themselves.                *)

Done == pc = "done"

\* The version the input declares: columns 0-8 of its first line, trimmed.
DeclaredVersion == Strip(SubSeq(DecodeLine(inRaw[1]), 1, Min(9, Len(inRaw[1]))))
DeclaresV3 == inRaw # <<>> /\ DeclaredVersion # <<>> /\ DeclaredVersion[1] = "3"
\* A version 3 file: its first record is RINEX VERSION / TYPE with a version 3.
IsV3File == DeclaresV3 /\ Label(inRaw[1]) = LBL_VERSION

\* The index of the first END OF HEADER record of a file (0: none).
EndOfHeaderAt(file) ==
    LET ends == {n \in 1..Len(file) : Label(file[n]) = LBL_END}
    IN  IF ends = {} THEN 0 ELSE CHOOSE n \in ends : \A m \in ends : n <= m

\* The header records of the input: the lines up to END OF HEADER, all of
\* them when there is none.
HeaderZone ==
    IF EndOfHeaderAt(inRaw) = 0 THEN 1..Len(inRaw) ELSE 1..EndOfHeaderAt(inRaw)

Mappable(code) == Join(code) \in DOMAIN OBS_MAPPING

\* The header has no G declaration with a code of the translation table: no
\* SYS / # / OBS TYPES record for G, or for G's continuation lines, lists one.
NoMappableG ==
    \A n \in HeaderZone :
        (Label(inRaw[n]) = LBL_SYS_OBS /\ Slice(inRaw[n], 0, 1) \in {<<"G">>, <<" ">>})
        => \A k \in 1..Len(Split(Slice(inRaw[n], 7, 60))) :
               ~Mappable(Split(Slice(inRaw[n], 7, 60))[k])

\* The header of the output has been written by this call.
HeaderWritten == outOpened /\ rnx2_types # <<>>

\* The data section of the output: its lines after END OF HEADER.
OutData == SubSeq(outFile.content, EndOfHeaderAt(outFile.content) + 1, Len(outFile.content))

\* The lines of the epochs written so far.
EpochLines(o) == o.hdr \o Concat(o.obs)
EmittedLines == Concat([n \in 1..Len(emitted) |-> EpochLines(emitted[n])])

\* C1: an input whose declared version does not start with '3' is copied
\* byte for byte to the output and True is returned; no header is parsed, no
\* code mapped and no record rewritten.
C1_PassThrough ==
    (Done /\ inRaw # <<>> /\ ~DeclaresV3)
    => /\ result = "True"
       /\ outFile = [exists |-> TRUE, content |-> inRaw]
       /\ header = InitialHeader
       /\ rnx2_types = <<>>
       /\ emitted = <<>>

\* A copy of a file that holds an undecodable byte, over a file that was there.
C1_Witness ==
    /\ Done /\ inRaw # <<>> /\ ~DeclaresV3
    /\ Label(inRaw[1]) = LBL_VERSION
    /\ outBefore.exists
    /\ \E n \in 1..Len(inRaw) : \E k \in 1..Len(inRaw[n]) : inRaw[n][k] = BadByte

\* C2: a version 3 input whose header declares no G code of the translation
\* table makes the call return False with the output path untouched.
C2_FailureOnEmptyMapping ==
    (Done /\ IsV3File /\ NoMappableG)
    => /\ result = "False"
       /\ outFile = outBefore
       /\ ~outOpened

\* C3: a version 3 input without END OF HEADER is reported as a failure and
\* nothing is written.
C3_MalformedHeaderFails ==
    (Done /\ IsV3File /\ EndOfHeaderAt(inRaw) = 0)
    => /\ result # "True"
       /\ outFile = outBefore
       /\ ~outOpened

\* C10: the call ends with True or False on every input.
C10_AlwaysBoolean == Done => result \in {"True", "False"}

\* The data section of the input: its lines after END OF HEADER.
InData == SubSeq(lines, EndOfHeaderAt(inRaw) + 1, Len(lines))

\* The n-th smallest element of a set of numbers.
Nth(S, n) == CHOOSE k \in S : Cardinality({m \in S : m <= k}) = n

\* The lines of d that start with the epoch marker.
EpochMarks(d) == {n \in 1..Len(d) : d[n] # <<>> /\ d[n][1] = ">"}

\* A satellite line of G, and the ids of the G lines among d[a..b].
IsGLine(l) == l # <<>> /\ l[1] = "G"
RECURSIVE GIds(_, _, _)
GIds(d, a, b) ==
    IF a > b THEN <<>>
    ELSE (IF IsGLine(d[a]) THEN <<Strip(SubSeq(d[a], 1, Min(3, Len(d[a]))))>> ELSE <<>>)
         \o GIds(d, a + 1, b)

\* d[n] is a well-formed epoch line followed, up to line last, by exactly the
\* satellite lines it declares, one of G at least among them.
GoodEpoch(d, n, last) ==
    /\ EpochOk(d[n])
    /\ EpochFields(d[n]).num_sats = last - n
    /\ GIds(d, n + 1, last) # <<>>

\* The data section is a well-formed epoch, an epoch whose epoch line does
\* not parse, and another well-formed epoch.
GoodBadGood(d) ==
    /\ Cardinality(EpochMarks(d)) = 3
    /\ 1 \in EpochMarks(d)
    /\ GoodEpoch(d, 1, Nth(EpochMarks(d), 2) - 1)
    /\ ~EpochOk(d[Nth(EpochMarks(d), 2)])
    /\ GoodEpoch(d, Nth(EpochMarks(d), 3), Len(d))

\* C4: with a corrupted epoch between two well-formed epochs that each have a
\* G satellite, the output data section is exactly the two well-formed
\* epochs, in input order, and the call returns True.
C4_RecoveryOnMalformedEpoch ==
    (Done /\ HeaderWritten /\ EndOfHeaderAt(inRaw) # 0 /\ GoodBadGood(InData))
    => LET d == InData
           base == EndOfHeaderAt(inRaw)
           third == Nth(EpochMarks(d), 3)
       IN  /\ result = "True"
           /\ Len(emitted) = 2
           /\ emitted[1].at = base
           /\ emitted[1].ids = GIds(d, 2, Nth(EpochMarks(d), 2) - 1)
           /\ emitted[2].at = base + third - 1
           /\ emitted[2].ids = GIds(d, third + 1, Len(d))
           /\ OutData = EpochLines(emitted[1]) \o EpochLines(emitted[2])

\* Such a transcode has ended; the corrupted epoch had a G satellite line of
\* its own.
C4_Witness ==
    /\ Done /\ HeaderWritten /\ EndOfHeaderAt(inRaw) # 0 /\ GoodBadGood(InData)
    /\ IsGLine(InData[Nth(EpochMarks(InData), 2) + 1])

\* The satellite ids of one physical line of an emitted epoch header:
\* 3-column slots from column 32 to the end of the line.
IdSlots(line) ==
    LET body == SubSeq(line, 33, Len(line) - 1)
    IN  [k \in 1..(Len(body) \div 3) |-> Strip(SubSeq(body, 3 * k - 2, 3 * k))]
ListedIds(hdr) == Concat([n \in 1..Len(hdr) |-> IdSlots(hdr[n])])
CountField(hdr) == SubSeq(hdr[1], 30, 32)

\* C5: every id of every emitted epoch header starts with G, and the count
\* field of the header is the number of ids on the header line and its
\* continuation lines.
C5_SatelliteFiltering ==
    /\ HeaderWritten => OutData = EmittedLines
    /\ \A n \in 1..Len(emitted) :
        LET hdr == emitted[n].hdr
        IN  /\ \A m \in 1..Len(hdr) : (Len(hdr[m]) - 33) % 3 = 0
            /\ \A k \in 1..Len(ListedIds(hdr)) :
                   ListedIds(hdr)[k] # <<>> /\ ListedIds(hdr)[k][1] = "G"
            /\ IntOk(CountField(hdr))
            /\ IntVal(CountField(hdr)) = Len(ListedIds(hdr))
            /\ ListedIds(hdr) = emitted[n].ids

\* An epoch header with a continuation line, and one whose epoch declared
\* more satellites than were of G.
C5_Witness ==
    /\ \E n \in 1..Len(emitted) : Len(emitted[n].hdr) > 1
    /\ \E n \in 1..Len(emitted) :
           /\ EpochFields(lines[emitted[n].at + 1]).num_sats = 2
           /\ Len(lines) >= emitted[n].at + 3
           /\ lines[emitted[n].at + 3][1] = "R"
           /\ Len(emitted[n].ids) = 1

\* The number of 16-column triples on a sequence of observation lines.
RECURSIVE Triples(_)
Triples(ls) ==
    IF ls = <<>> THEN 0 ELSE ((Len(Head(ls)) - 1) \div FieldWidth) + Triples(Tail(ls))

\* C6: every listed satellite of every emitted epoch has exactly
\* len(rnx2_types) triples of 16 columns on its observation lines.
C6_FieldSlotIntegrity ==
    \A n \in 1..Len(emitted) :
        /\ Len(emitted[n].obs) = Len(emitted[n].ids)
        /\ \A k \in 1..Len(emitted[n].obs) :
            /\ \A m \in 1..Len(emitted[n].obs[k]) :
                   (Len(emitted[n].obs[k][m]) - 1) % FieldWidth = 0
            /\ Triples(emitted[n].obs[k]) = Len(rnx2_types)

\* Two source codes of one target code, a short satellite line, and more
\* than one observation line for a satellite.
C6_Witness ==
    /\ Done
    /\ Len(GpsTypes(header)) > Len(rnx2_types)
    /\ Len(rnx2_types) > ObsPerLine
    /\ \E n \in 1..Len(emitted) :
           \E k \in 1..Len(emitted[n].ids) : emitted[n].ids[k] = <<"G", "0", "2">>

\* The G codes the parsed header declares, and their translations.
Translation(code) == OBS_MAPPING[Join(code)]
MappableAt(g) == {k \in 1..Len(g) : Mappable(g[k])}
\* The positions where a translation occurs for the first time.
FirstAt(g) ==
    {k \in MappableAt(g) :
        \A m \in MappableAt(g) : m < k => Translation(g[m]) # Translation(g[k])}
\* The translations in order of first occurrence.
FirstTranslations(g) ==
    [n \in 1..Cardinality(FirstAt(g)) |-> Translation(g[Nth(FirstAt(g), n)])]

\* The # / TYPES OF OBSERV record of the output: its lines, the count on the
\* first, the codes listed on all of them.
TypesRecord == SelectSeq(outFile.content, LAMBDA l : Label(l) = LBL_TYPES_OBSERV)
ListedTypes == Concat([n \in 1..Len(TypesRecord) |-> Split(Slice(TypesRecord[n], 6, 60))])

\* C7 as stated: with N the number of distinct declared G codes that have a
\* translation, the record of a finished transcode declares N.
C7_CountOfMappableCodes ==
    (Done /\ HeaderWritten /\ EndOfHeaderAt(inRaw) # 0)
    => /\ TypesRecord # <<>>
       /\ IntOk(Slice(TypesRecord[1], 0, 6))
       /\ IntVal(Slice(TypesRecord[1], 0, 6))
            = Cardinality({GpsTypes(header)[k] : k \in MappableAt(GpsTypes(header))})

\* C7 (amended): with N >= 1 the number of distinct RINEX 2 codes the declared
\* G codes translate to, the record declares N on its first line only, and
\* lists exactly those N codes, in order of first declaration, over the first
\* line and its continuation lines.
C7_CodeTable ==
    HeaderWritten
    => LET g == GpsTypes(header)
           N == Cardinality({Translation(g[k]) : k \in MappableAt(g)})
       IN  /\ N >= 1
           /\ TypesRecord # <<>>
           /\ IntOk(Slice(TypesRecord[1], 0, 6))
           /\ IntVal(Slice(TypesRecord[1], 0, 6)) = N
           /\ \A n \in 2..Len(TypesRecord) : Slice(TypesRecord[n], 0, 6) = Blanks(6)
           /\ Len(ListedTypes) = N
           /\ ListedTypes = FirstTranslations(g)

\* A record with a continuation line, for a declaration with two codes of
\* one translation.
C7_Witness ==
    /\ HeaderWritten
    /\ Len(TypesRecord) > 1
    /\ Cardinality(MappableAt(GpsTypes(header))) > Len(ListedTypes)

\* _build_obs_type_mapping has returned.
MappingBuilt ==
    \/ pc \in {"mapped", "scan", "collect", "collected", "emit"}
    \/ Done /\ result \in {"True", "False"} /\ DeclaresV3

\* C8: rnx2_types is the translations of the declared G codes in declared
\* order, without the untranslatable codes and without any translation seen
\* earlier: the first source code of a translation fixes its position, a
\* later one adds no column.
C8_FirstOccurrenceWins ==
    MappingBuilt
    => LET g == GpsTypes(header)
       IN  /\ rnx2_types = FirstTranslations(g)
           /\ \A k \in MappableAt(g) :
                LET first == CHOOSE m \in FirstAt(g) : Translation(g[m]) = Translation(g[k])
                    n == Cardinality({m \in FirstAt(g) : m <= first})
                IN  /\ first <= k
                    /\ n <= Len(rnx2_types)
                    /\ rnx2_types[n] = Translation(g[k])
           /\ Len(rnx2_types) = Cardinality({Translation(g[k]) : k \in MappableAt(g)})

\* A declaration where a translation comes back after another one, and an
\* untranslatable code.
C8_Witness ==
    /\ MappingBuilt
    /\ \E a, b, c \in 1..Len(GpsTypes(header)) :
        /\ a < b /\ b < c
        /\ Mappable(GpsTypes(header)[a]) /\ Mappable(GpsTypes(header)[b])
        /\ Mappable(GpsTypes(header)[c])
        /\ Translation(GpsTypes(header)[a]) = Translation(GpsTypes(header)[c])
        /\ Translation(GpsTypes(header)[a]) # Translation(GpsTypes(header)[b])
    /\ \E k \in 1..Len(GpsTypes(header)) : ~Mappable(GpsTypes(header)[k])

\* C9: rnx2_types has no duplicates; mapping has an entry for every source
\* index, None exactly when the code is not in the table and otherwise an
\* element of rnx2_types; every element of rnx2_types is the mapping of some
\* index.
C9_MapperInvariant ==
    MappingBuilt
    => LET g == GpsTypes(header)
       IN  /\ \A a, b \in 1..Len(rnx2_types) : rnx2_types[a] = rnx2_types[b] => a = b
           /\ DOMAIN mapping = 0..(Len(g) - 1)
           /\ \A idx \in DOMAIN mapping :
                /\ mapping[idx] = None <=> ~Mappable(g[idx + 1])
                /\ mapping[idx] # None => InSeq(mapping[idx], rnx2_types)
           /\ \A n \in 1..Len(rnx2_types) :
                \E idx \in DOMAIN mapping : mapping[idx] = rnx2_types[n]

\* A mapping with an unmapped index and two indexes of one type.
C9_Witness ==
    /\ MappingBuilt
    /\ \E idx \in DOMAIN mapping : mapping[idx] = None
    /\ \E a, b \in DOMAIN mapping : a # b /\ mapping[a] = mapping[b] /\ mapping[a] # None

\* The least q with q * d >= n.
CeilDiv(n, d) == CHOOSE q \in 0..n : q * d >= n /\ (q = 0 \/ (q - 1) * d < n)

\* The 6-column slots of one # / TYPES OF OBSERV line after its count field.
TypeSlot(line, k) == SubSeq(line, 6 * k + 1, 6 * k + 6)

\* C11: a list of n >= 1 codes is written as ceil(n/9) # / TYPES OF OBSERV
\* lines of 9 codes each but the last, which has the rest (1 to 9); the
\* first has n in its 6-column count field and the others have it blank;
\* every code stands right-justified in its 6-column slot, in list order,
\* and the slots after the last code of a line are blank.
C11_CodeListWrapping ==
    (pc = "header_written" /\ Len(rnx2_types) >= 1)
    => LET n == Len(rnx2_types)
           rec == TypesRecord
           held(m) == IF m < Len(rec) THEN 9 ELSE n - 9 * (Len(rec) - 1)
       IN  /\ Len(rec) = CeilDiv(n, 9)
           /\ held(Len(rec)) \in 1..9
           /\ SubSeq(rec[1], 1, 6) = FmtInt(n, 6)
           /\ \A m \in 2..Len(rec) : SubSeq(rec[m], 1, 6) = Blanks(6)
           /\ \A m \in 1..Len(rec) :
                /\ Len(rec[m]) = 60 + Len(LBL_TYPES_OBSERV) + 1
                /\ \A k \in 1..9 :
                     TypeSlot(rec[m], k)
                       = IF k <= held(m)
                         THEN Blanks(6 - Len(rnx2_types[9 * (m - 1) + k]))
                              \o rnx2_types[9 * (m - 1) + k]
                         ELSE Blanks(6)

\* A list of 23 codes on three lines of 9, 9 and 5.
C11_Witness ==
    /\ pc = "header_written"
    /\ Len(rnx2_types) = 23
    /\ Len(TypesRecord) = 3
    /\ TypeSlot(TypesRecord[3], 5) # Blanks(6)
    /\ TypeSlot(TypesRecord[3], 6) = Blanks(6)

\* C12: an epoch with m >= 1 retained satellites has ceil(m/12) header
\* lines; each holds 12 ids of 3 columns but the last, which holds the rest
\* (1 to 12), so that no line is without an id; the first line has the 32
\* columns of the epoch fields before its ids and every other line has 32
\* blanks; the ids are the retained ones in order.
C12_SatelliteIdWrapping ==
    /\ (HeaderWritten /\ EndOfHeaderAt(inRaw) # 0) => OutData = EmittedLines
    /\ \A n \in 1..Len(emitted) :
        LET hdr == emitted[n].hdr
            m == Len(emitted[n].ids)
            held(l) == IF l < Len(hdr) THEN 12 ELSE m - 12 * (Len(hdr) - 1)
        IN  /\ m >= 1
            /\ Len(hdr) = CeilDiv(m, 12)
            /\ held(Len(hdr)) \in 1..12
            /\ \A l \in 1..Len(hdr) :
                 /\ Len(hdr[l]) = 32 + 3 * held(l) + 1
                 /\ hdr[l][Len(hdr[l])] = NL
                 /\ l > 1 => SubSeq(hdr[l], 1, 32) = Blanks(32)
                 /\ \A k \in 1..held(l) :
                      SubSeq(hdr[l], 32 + 3 * k - 2, 32 + 3 * k)
                        = RJust(emitted[n].ids[12 * (l - 1) + k], 3)

\* 24 ids on two lines and 25 ids on three, from epochs that declared one
\* satellite more than they retained.
C12_Witness ==
    /\ Done
    /\ Len(emitted) = 2
    /\ Len(emitted[1].ids) = 24 /\ Len(emitted[1].hdr) = 2
    /\ Len(emitted[2].ids) = 25 /\ Len(emitted[2].hdr) = 3
    /\ EpochFields(lines[emitted[2].at + 1]).num_sats = 26

\* The header part of the output: what precedes the lines of the epochs
\* written so far.
HeaderPart == SubSeq(outFile.content, 1, Len(outFile.content) - Len(EmittedLines))
LabelsOf(ls) == [n \in 1..Len(ls) |-> Label(ls[n])]
RecordsOf(ls, label) == {n \in 1..Len(ls) : Label(ls[n]) = label}

\* The text of the only record of the source header with this label (empty
\* when there is none), and of the only such record of the output header.
SourceText(label) ==
    LET at == {n \in HeaderZone : Label(lines[n]) = label}
    IN  IF at = {} THEN <<>> ELSE Strip(Slice(lines[CHOOSE n \in at : TRUE], 0, 60))
OutputText(label) ==
    LET at == RecordsOf(HeaderPart, label)
    IN  IF at = {} THEN <<>> ELSE Strip(Slice(HeaderPart[CHOOSE n \in at : TRUE], 0, 60))

\* The one order of the output records, for a source with or without the
\* optional ones.
Optional(label) == IF SourceText(label) # <<>> THEN <<label>> ELSE <<>>
FixedOrder ==
    <<LBL_VERSION, LBL_PGM, LBL_MARKER_NAME>> \o Optional(LBL_MARKER_NUMBER)
    \o <<LBL_OBSERVER, LBL_REC, LBL_ANT, LBL_POS, LBL_DELTA, LBL_WAVELENGTH>>
    \o [k \in 1..CeilDiv(Len(rnx2_types), 9) |-> LBL_TYPES_OBSERV]
    \o <<LBL_INTERVAL>> \o Optional(LBL_TIME_FIRST) \o Optional(LBL_TIME_LAST)
    \o <<LBL_END>>

\* C13: once the output of a transcode has been opened, it is, at every
\* moment, the header records in the one fixed order, whatever the order of
\* the source records, followed by the epoch lines written so far and by
\* nothing else; the header has one wavelength-factor record, always the
\* same, and END OF HEADER once, as its last record; the text records carry
\* the text of the source record with the same label.
C13_FixedHeaderLayout ==
    (HeaderWritten /\ IsV3File)
    => /\ Len(outFile.content) >= Len(EmittedLines)
       /\ outFile.content = HeaderPart \o EmittedLines
       /\ LabelsOf(HeaderPart) = FixedOrder
       /\ \A n \in RecordsOf(HeaderPart, LBL_WAVELENGTH) :
              HeaderPart[n] = OUT_WAVELENGTH \o Blanks(48) \o LBL_WAVELENGTH \o <<NL>>
       /\ Cardinality(RecordsOf(HeaderPart, LBL_WAVELENGTH)) = 1
       /\ RecordsOf(HeaderPart, LBL_END) = {Len(HeaderPart)}
       /\ \A label \in {LBL_MARKER_NAME, LBL_MARKER_NUMBER, LBL_TIME_FIRST, LBL_TIME_LAST} :
              Cardinality({n \in HeaderZone : Label(lines[n]) = label}) <= 1
              => OutputText(label) = SourceText(label)
       /\ result = "True" => Done

\* A finished transcode with epoch data whose source has TIME OF FIRST OBS
\* before the code declaration, and MARKER NUMBER after it.
C13_Witness ==
    /\ Done /\ result = "True" /\ HeaderWritten /\ IsV3File
    /\ emitted # <<>>
    /\ \E a, b, c \in HeaderZone :
          /\ a < b /\ b < c
          /\ Label(lines[a]) = LBL_TIME_FIRST
          /\ Label(lines[b]) = LBL_SYS_OBS
          /\ Label(lines[c]) = LBL_MARKER_NUMBER

\* The calls of the process, and what a call leaves behind.
AllCalls == <<Current>> \o other
Outcome(c) == [result |-> c.result, output |-> c.outFile]

\* C14: whatever the order in which the calls of a process took their
\* steps, two calls that have ended on input files of the same content have
\* the same result and have left output files of the same content.
C14_IndependentInvocations ==
    \A a, b \in 1..Len(AllCalls) :
        (AllCalls[a].pc = "done" /\ AllCalls[b].pc = "done"
            /\ AllCalls[a].inRaw = AllCalls[b].inRaw)
        => Outcome(AllCalls[a]) = Outcome(AllCalls[b])

\* Two transcodes of one content have ended while a call on another file,
\* which has a marker number, is between two of its steps.
C14_Witness ==
    /\ Done /\ result = "True" /\ emitted # <<>>
    /\ \E a, b \in 1..Len(other) :
          /\ other[a].pc = "done" /\ other[a].inRaw = inRaw
          /\ other[b].pc \in {"scan", "collect", "emit"}
          /\ other[b].inRaw # inRaw
          /\ other[b].header.marker_number # <<>>

\* A SYS / # / OBS TYPES line is about to be dispatched: the constellation
\* and the count it declares.
AtDeclaration ==
    /\ pc = "parse" /\ i < Len(lines)
    /\ Label(lines[i + 1]) = LBL_SYS_OBS
    /\ IntOk(Slice(lines[i + 1], 3, 6))
DeclaredSystem == Join(SubSeq(lines[i + 1], 1, 1))
DeclaredCount == IntVal(Slice(lines[i + 1], 3, 6))

\* The tokens of columns 7-59 of line n and of the r lines after it.
RECURSIVE TokensOf(_, _, _)
TokensOf(ls, n, r) ==
    IF r < 0 THEN <<>> ELSE TokensOf(ls, n, r - 1) \o Split(Slice(ls[n + r], 7, 60))
\* How many lines immediately after line n bear the label of line n.
SameLabelRun(ls, n) ==
    CHOOSE r \in 0..(Len(ls) - n) :
        /\ \A m \in (n + 1)..(n + r) : Label(ls[m]) = Label(ls[n])
        /\ (n + r = Len(ls) \/ Label(ls[n + r + 1]) # Label(ls[n]))
\* How many of them are read for a count of c: the fewest that assemble c
\* tokens, all of them when they do not.
LinesRead(ls, n, c) ==
    LET enough == {r \in 0..SameLabelRun(ls, n) : Len(TokensOf(ls, n, r)) >= c}
    IN  IF enough = {} THEN SameLabelRun(ls, n)
        ELSE CHOOSE r \in enough : \A q \in enough : r <= q
MergedTypes(ls, n, c) ==
    LET all == TokensOf(ls, n, LinesRead(ls, n, c))
    IN  SubSeq(all, 1, IF c < Len(all) THEN c ELSE Len(all))

\* C15: dispatching a SYS / # / OBS TYPES line that declares c codes
\* for s stores for s the first c tokens of that line and of the lines of
\* the same label right after it, read only as far as c tokens need; never
\* more than c; fewer when the lines run out or another label comes first,
\* and then the parse goes on without an error.
C15_ContinuationMerge ==
    [][AtDeclaration
       => /\ DeclaredSystem \in DOMAIN header'.obs_types
          /\ header'.obs_types[DeclaredSystem] = MergedTypes(lines, i + 1, DeclaredCount)
          /\ Len(header'.obs_types[DeclaredSystem]) <= DeclaredCount
          /\ pc' = "parse" /\ result' = result]_vars

\* The lines consumed as satellite records of the n-th emitted epoch, and
\* among them the retained ones, as indexes into the input.
ConsumedLines(n) ==
    LET first == emitted[n].at + 2
        last == Min(emitted[n].at + 1 + EpochFields(lines[emitted[n].at + 1]).num_sats,
                    Len(lines))
    IN  first..last
RetainedLines(n) == {m \in ConsumedLines(n) : IsGLine(lines[m])}
RetainedLine(n, k) == lines[Nth(RetainedLines(n), k)]

\* The t-th 16-column field of the k-th observation group of the n-th
\* emitted epoch.
GroupText(n, k) ==
    Concat([m \in 1..Len(emitted[n].obs[k]) |->
              SubSeq(emitted[n].obs[k][m], 1, Len(emitted[n].obs[k][m]) - 1)])
EmittedField(n, k, t) == SubSeq(GroupText(n, k), 16 * (t - 1) + 1, 16 * t)

\* The smallest source index (0-based) whose code is written as the target
\* code.
SmallestSource(target) ==
    LET g == GpsTypes(header)
        hits == {idx \in 0..(Len(g) - 1) :
                    Mappable(g[idx + 1]) /\ Translation(g[idx + 1]) = target}
    IN  CHOOSE idx \in hits : \A m \in hits : idx <= m

\* C16: for the k-th retained satellite of an emitted epoch and the t-th
\* target code, the emitted field holds the text of columns 3+16i to
\* 3+16i+15 of that satellite's line, i being the smallest source index
\* written as that code; it is blank when the line ends before that column.
C16_PerCodeValueSelection ==
    \A n \in 1..Len(emitted) :
        /\ Cardinality(RetainedLines(n)) = Len(emitted[n].ids)
        /\ \A k \in 1..Len(emitted[n].ids) :
            \A t \in 1..Len(rnx2_types) :
                LET idx == SmallestSource(rnx2_types[t])
                IN  Strip(EmittedField(n, k, t))
                      = Strip(Slice(RetainedLine(n, k), 3 + 16 * idx, 3 + 16 * idx + 16))

\* The satellites the epoch in progress declares, and the 0-based index of
\* the last of the lines that follow its epoch line, as far as the input
\* goes.
Declared == Max(epoch.fields.num_sats, 0)
LastDeclared == Min(epoch.at + Declared, Len(lines) - 1)

\* C17: after a well-formed epoch line declaring k satellites the walk
\* takes the next k lines one by one, each counted whether retained or not,
\* fewer only when the input ends; the retained ids are those of the G
\* lines among them; the scan resumes at the line right after them.
C17_SatelliteLineConsumption ==
    [][/\ (pc = "scan" /\ pc' = "collect")
            => (epoch'.at = i /\ i' = i /\ j' = 0 /\ sats' = <<>>)
       /\ (pc = "collect" /\ pc' = "collect")
            => /\ i' = i + 1 /\ j' = j + 1
               /\ i' = epoch.at + j'
               /\ i' <= LastDeclared
               /\ sats' = GIds(lines, epoch.at + 2, i' + 1)
       /\ (pc \in {"collect", "collected", "emit"} /\ pc' = "scan")
            => /\ sats = GIds(lines, epoch.at + 2, LastDeclared + 1)
               /\ IF epoch.at + Declared <= Len(lines) - 1
                  THEN i' = epoch.at + Declared + 1
                  ELSE i' >= Len(lines)]_vars

\* The scan has resumed on an epoch line right after the two lines of an
\* epoch that declared two satellites and retained one.
C17_Witness ==
    /\ pc = "scan"
    /\ epoch.fields.num_sats = 2
    /\ Len(sats) = 1
    /\ i = epoch.at + 3
    /\ i < Len(lines)
    /\ lines[i + 1][1] = ">"
    /\ ~IsGLine(lines[i])

\* d[n] is a well-formed epoch line and none of the lines it declares (none
\* for a count of zero or less; those there are when the input ends) is of G.
EmptyEpoch(d, n) ==
    /\ EpochOk(d[n])
    /\ GIds(d, n + 1, Min(n + Max(EpochFields(d[n]).num_sats, 0), Len(d))) = <<>>

\* The data section is an epoch with a G satellite, an epoch without one,
\* and another epoch with one.
GoodEmptyGood(d) ==
    /\ Cardinality(EpochMarks(d)) = 3
    /\ 1 \in EpochMarks(d)
    /\ GoodEpoch(d, 1, Nth(EpochMarks(d), 2) - 1)
    /\ EmptyEpoch(d, Nth(EpochMarks(d), 2))
    /\ GoodEpoch(d, Nth(EpochMarks(d), 3), Len(d))

\* What is written for the epoch at d[n] with satellite lines up to d[last]
\* when it is the only epoch of the data section: sat_data as the lines
\* d[n+1..last] leave it, and the output for it.
RECURSIVE SatDataOf(_, _, _)
SatDataOf(d, a, b) ==
    IF a > b THEN EmptyDict
    ELSE IF IsGLine(d[b])
    THEN DictPut(SatDataOf(d, a, b - 1), Join(SatId(d[b])),
                 SatValues(d[b], Len(GpsTypes(header))))
    ELSE SatDataOf(d, a, b - 1)
Alone(d, n, last) ==
    EpochLines(EpochOutput([fields |-> EpochFields(d[n]), at |-> 0], GIds(d, n + 1, last),
                           SatDataOf(d, n + 1, last), rnx2_types, mapping,
                           Len(GpsTypes(header))))

\* C18: no epoch is ever written without a retained satellite; with an epoch
\* without a G satellite between two epochs that have G satellites,
\* the output data section is the lines of the first epoch followed by the
\* lines of the third, each as it is written when the epoch stands alone.
C18_EmptyEpochsDropped ==
    /\ \A n \in 1..Len(emitted) :
          emitted[n].ids # <<>> /\ emitted[n].hdr # <<>> /\ emitted[n].obs # <<>>
    /\ (Done /\ HeaderWritten /\ EndOfHeaderAt(inRaw) # 0 /\ GoodEmptyGood(InData))
       => LET d == InData
              second == Nth(EpochMarks(d), 2)
              third == Nth(EpochMarks(d), 3)
          IN  /\ result = "True"
              /\ Len(emitted) = 2
              /\ emitted[1].at = EndOfHeaderAt(inRaw)
              /\ emitted[2].at = EndOfHeaderAt(inRaw) + third - 1
              /\ OutData = Alone(d, 1, second - 1) \o Alone(d, third, Len(d))

\* C19: with N target codes, every observation group of every emitted
\* epoch is ceil(N/5) lines; each line before the last is 5 triples of 16
\* columns and the last is the rest (1 to 5), so that a line is 16, 32, 48,
\* 64 or 80 columns before its terminator.
C19_ObservationLineLayout ==
    \A n \in 1..Len(emitted) :
        \A k \in 1..Len(emitted[n].obs) :
            LET obs == emitted[n].obs[k]
                N == Len(rnx2_types)
                held(m) == IF m < Len(obs) THEN 5 ELSE N - 5 * (Len(obs) - 1)
            IN  /\ Len(obs) = CeilDiv(N, 5)
                /\ held(Len(obs)) \in 1..5
                /\ \A m \in 1..Len(obs) :
                     /\ obs[m][Len(obs[m])] = NL
                     /\ \A c \in 1..(Len(obs[m]) - 1) : obs[m][c] # NL
                     /\ Len(obs[m]) - 1 = 16 * held(m)
                     /\ Len(obs[m]) - 1 <= 80

\* A finished transcode to 11 types: groups of three lines, of 5, 5 and 1
\* triples, one of them for a satellite line that ends after its second field.
C19_Witness ==
    /\ Done /\ Len(rnx2_types) = 11
    /\ Len(emitted) = 1
    /\ Len(emitted[1].obs) = 2
    /\ Len(emitted[1].obs[2]) = 3
    /\ Len(emitted[1].obs[2][3]) = 17

\* The three states of the walk of _convert_data.
Scanning == pc = "scan"
Collecting == pc \in {"collect", "collected"}
Emitting == pc = "emit"
Walking == Scanning \/ Collecting \/ Emitting

\* One step of the walk and the steps into and out of it.
WalkStep ==
    /\ (~Walking /\ Walking') => (Scanning' /\ pc = "mapped" /\ emitted' = <<>>)
    /\ (~Collecting /\ Collecting')
         => /\ Scanning /\ i < Len(lines)
            /\ StartsWith(lines[i + 1], ">") /\ EpochOk(lines[i + 1])
            /\ epoch'.at = i /\ sats' = <<>>
    /\ Collecting => (Collecting' \/ Emitting' \/ Scanning')
    /\ (Collecting /\ Scanning') => sats = <<>>
    /\ Emitting' => ((Collecting \/ Emitting) /\ sats # <<>> /\ sats' = sats)
    /\ Emitting => (Emitting' \/ Scanning')
    /\ Scanning => (Scanning' \/ Collecting' \/ Done')
    /\ (Walking /\ ~Walking')
         => (Scanning /\ i >= Len(lines) /\ Done' /\ result' = "True")
    \* the line index never goes back, and a pass of the loop ends past the
    \* line it started at
    /\ Walking => i' >= i
    /\ (Scanning /\ Scanning' /\ i' # i) => i' > i
    /\ ((Collecting \/ Emitting) /\ Scanning') => i' > epoch.at
    \* an epoch is written in one piece, by the emitting state alone
    /\ (Walking /\ Walking' /\ ~(Emitting /\ Scanning'))
         => (emitted' = emitted /\ outFile' = outFile)
    /\ (Emitting /\ Scanning')
         => LET o == emitted'[Len(emitted')]
            IN  /\ Len(emitted') = Len(emitted) + 1
                /\ SubSeq(emitted', 1, Len(emitted)) = emitted
                /\ o.at = epoch.at /\ o.ids = sats
                /\ Len(o.obs) = Len(sats)
                /\ \A k \in 1..Len(o.obs) : o.obs[k] # <<>>
                /\ Join(CountField(o.hdr)) = Join(FmtInt(Len(sats), 3))
                /\ ListedIds(o.hdr) = sats
                /\ outFile'.content = outFile.content \o EpochLines(o)

\* The data section written so far is the epochs emitted so far, each whole
\* and each for a well-formed epoch line of the input, in input order.
WholeEpochs ==
    (Walking \/ (Done /\ HeaderWritten))
    => /\ OutData = EmittedLines
       /\ \A n \in 1..Len(emitted) :
            /\ emitted[n].at + 1 \in 1..Len(lines)
            /\ EpochOk(lines[emitted[n].at + 1])
            /\ n > 1 => emitted[n].at > emitted[n - 1].at

\* C20: the walk starts scanning; it goes collecting only on a well-formed
\* epoch line, emitting only with a retained satellite, and scanning again
\* after either; every pass of its loop ends at a greater line index, so it
\* ends, at the end of the input and scanning; an epoch is written whole
\* (header, then one observation group per listed satellite) or not at all.
C20_WalkerTermination ==
    /\ [][WalkStep]_vars
    /\ []WholeEpochs
    /\ (Walking ~> (Done /\ result = "True" /\ i >= Len(lines)))

\* A walk that ended after emitting one epoch and dropping another
\* well-formed one, with a malformed epoch line and the end of the input
\* inside a collection on its way.
C20_Witness ==
    /\ Done /\ HeaderWritten
    /\ Len(emitted) >= 1
    /\ i > Len(lines)
    /\ \E n \in 1..Len(lines) :
         /\ n > header.header_end_line
         /\ StartsWith(lines[n], ">") /\ ~EpochOk(lines[n])

\* The text of a line without its line end, and whether the line ends
\* before the last column of the slice of source index idx.
Content(line) ==
    IF line # <<>> /\ line[Len(line)] = NL THEN SubSeq(line, 1, Len(line) - 1) ELSE line
EndsBefore(line, idx) == Len(Content(line)) < 3 + 16 * idx + 16

\* C21: when a retained satellite line ends before the last column of the
\* slice of a declared code, the triple of that code is still written and
\* is what the line has of the slice, in place, with blanks for the columns
\* the line does not have (16 blanks when it has none of them); the group is
\* written, and the call returns True. Stated for the epochs whose retained
\* lines carry pairwise different ids, where the k-th group is written from
\* the k-th retained line.
C21_ShortRecordsBlankFilled ==
    /\ (Done /\ HeaderWritten) => result = "True"
    /\ \A n \in 1..Len(emitted) :
         /\ Cardinality(RetainedLines(n)) = Len(emitted[n].ids)
         /\ Len(emitted[n].obs) = Len(emitted[n].ids)
         /\ Distinct(emitted[n].ids)
             => \A k \in 1..Len(emitted[n].ids) :
                  \A t \in 1..Len(rnx2_types) :
                     LET idx == SmallestSource(rnx2_types[t])
                         line == RetainedLine(n, k)
                     IN  EndsBefore(line, idx)
                         => EmittedField(n, k, t)
                              = LJust(Slice(Content(line), 3 + 16 * idx, 3 + 16 * idx + 16), 16)

\* Whether the source header has a record with this label, and the output
\* header.
InSource(label) == \E n \in HeaderZone : Label(lines[n]) = label
InOutput(label) == RecordsOf(HeaderPart, label) # {}

\* C22: the output header has an INTERVAL record exactly when the source
\* header has one, and likewise a TIME OF FIRST OBS and a TIME OF LAST OBS
\* record.
C22_OptionalHeaderRecords ==
    (HeaderWritten /\ IsV3File)
    => \A label \in {LBL_INTERVAL, LBL_TIME_FIRST, LBL_TIME_LAST} :
          InOutput(label) <=> InSource(label)

\* The value a numeric field has after the header of a file whose numeric
\* records all come before its first SYS / # / OBS TYPES record: that of the
\* last record of the label that parses, the default when there is none.
NumbersFirst ==
    \A n, m \in HeaderZone :
        (Label(lines[n]) \in {LBL_POS, LBL_DELTA, LBL_INTERVAL} /\ Label(lines[m]) = LBL_SYS_OBS)
        => n < m
LastGood(label) ==
    LET good == {n \in HeaderZone : Label(lines[n]) = label /\ ~BadNumber(lines[n])}
    IN  IF good = {} THEN 0 ELSE CHOOSE n \in good : \A m \in good : m <= n
GoodTriple(label) ==
    IF LastGood(label) = 0 THEN <<0, 0, 0>> ELSE TripleVal(lines[LastGood(label)])
GoodInterval ==
    IF LastGood(LBL_INTERVAL) = 0 THEN 30 * Pow10(FracDigits)
    ELSE FloatVal(Slice(lines[LastGood(LBL_INTERVAL)], 0, 10))

\* C23: the pass of the header loop over an APPROX POSITION XYZ, ANTENNA:
\* DELTA H/E/N or INTERVAL record with a component that is not a number
\* leaves the whole header as it was and goes on with the next line; the
\* header that is written therefore carries, for each of the three fields,
\* the last record that parses, or the default.
C23_MalformedNumbersKeepPrior ==
    /\ [][(pc = "parse" /\ i < Len(lines) /\ BadNumber(lines[i + 1]))
            => (header' = header /\ i' = i + 1 /\ pc' = "parse" /\ result' = result)]_vars
    /\ []((HeaderWritten /\ IsV3File /\ NumbersFirst)
            => /\ header.approx_pos = GoodTriple(LBL_POS)
               /\ header.antenna.delta = GoodTriple(LBL_DELTA)
               /\ header.interval = GoodInterval
               /\ OutputText(LBL_POS) = Strip(Triple14_4f(GoodTriple(LBL_POS)))
               /\ OutputText(LBL_DELTA) = Strip(Triple14_4f(GoodTriple(LBL_DELTA)))
               /\ OutputText(LBL_INTERVAL) = Strip(FmtFixed(GoodInterval, 10, 3)))

\* A written header after a position that parses, then one that does not,
\* then an antenna offset that does not: the first position and the default
\* offset are written.
C23_Witness ==
    /\ HeaderWritten /\ IsV3File /\ NumbersFirst
    /\ Len(lines) > 4
    /\ lines[2] = H_POS /\ lines[3] = H_POS_BAD /\ lines[4] = H_DELTA_BAD
    /\ header.approx_pos # <<0, 0, 0>>

\* The lines a pass of the header loop moves over, first one excluded
\* (0-based indexes).
PassedOver == {n \in (i + 1)..(i' - 1) : n < Len(lines)}

\* C24: every line of the header is dispatched under its own label: a pass
\* of the header loop moves over the line it dispatches and, after it, only
\* over SYS / # / OBS TYPES lines it has taken as continuations; so the
\* first END OF HEADER line of a version 3 file, wherever it stands, is
\* recorded as the boundary.
C24_NoHeaderLineSkipped ==
    /\ [][(pc = "parse" /\ pc' = "parse")
            => \A n \in PassedOver : Label(lines[n + 1]) = LBL_SYS_OBS]_vars
    /\ []((MappingBuilt /\ IsV3File /\ EndOfHeaderAt(inRaw) # 0)
            => header.header_end_line = EndOfHeaderAt(inRaw) - 1)

\* The observation lines of a satellite line written from its own values.
OwnGroup(line) ==
    ObsLines(Rnx2Values(SatValues(line, Len(GpsTypes(header))), rnx2_types, mapping,
                        Len(GpsTypes(header))), 1, <<>>)

\* C25: in every emitted epoch the k-th id of the header is the id of the
\* k-th retained satellite line of the source epoch, and the k-th
\* observation group is the one written from the values of that line, two
\* lines with one id included.
C25_IdentifierDataCorrespondence ==
    \A n \in 1..Len(emitted) :
        /\ Cardinality(RetainedLines(n)) = Len(emitted[n].ids)
        /\ \A k \in 1..Len(emitted[n].ids) :
             /\ emitted[n].ids[k] = SatId(RetainedLine(n, k))
             /\ emitted[n].obs[k] = OwnGroup(RetainedLine(n, k))

\* The raw slice a triple is written from: columns 3+16i to 3+16i+15 of the
\* satellite line, as far as the line goes.
RawSlice(line, t) ==
    Slice(line, 3 + 16 * SmallestSource(rnx2_types[t]),
          3 + 16 * SmallestSource(rnx2_types[t]) + 16)

\* C26: every emitted triple is its raw slice without trailing blanks and
\* line end, padded on the right with blanks to 16 columns, so that every
\* character of the slice stands in the column it had; for the slices of
\* all lengths the lines give. Stated for the epochs whose retained lines
\* carry pairwise different ids.
C26_ColumnPreservation ==
    \A n \in 1..Len(emitted) :
        (Distinct(emitted[n].ids) /\ Cardinality(RetainedLines(n)) = Len(emitted[n].ids))
        => \A k \in 1..Len(emitted[n].ids) :
             \A t \in 1..Len(rnx2_types) :
                EmittedField(n, k, t) = LJust(RStrip(RawSlice(RetainedLine(n, k), t)), 16)

\* The version _parse_rinex3_header records for the input, and whether the
\* call that has returned went the way of the transcode: it returned False,
\* or True with the codes it has written (a copy builds no code list).
HasVersionRecord == \E n \in HeaderZone : Label(inRaw[n]) = LBL_VERSION
RecordedVersion == ParseHeader(InitialHeader, Decode(inRaw), 0).header.version
Transcoded == result = "False" \/ rnx2_types # <<>>

\* C27: a call on a file with a RINEX VERSION / TYPE record goes the way of
\* the transcode exactly when the version the parser records from that
\* record starts with '3', and copies the file otherwise, wherever the
\* record stands in the header.
C27_DecisionAgreesWithParser ==
    (Done /\ result \in {"True", "False"} /\ inRaw # <<>> /\ HasVersionRecord)
    => (Transcoded <=> StartsWith(RecordedVersion, "3"))

\* The satellite lines the epoch line lines[n] declares (1-based indexes),
\* as far as the input goes, and the well-formed epoch lines after the
\* header boundary that declare a G satellite among them.
DeclaredLines(n) ==
    (n + 1)..Min(n + EpochFields(lines[n]).num_sats, Len(lines))
EpochsWithG ==
    {n \in (header.header_end_line + 2)..Len(lines) :
        /\ StartsWith(lines[n], ">") /\ EpochOk(lines[n])
        /\ \E m \in DeclaredLines(n) : IsGLine(lines[m])}

\* C28: when the walk has ended, the emitted epochs are, one for one and in
\* input order, the well-formed epoch lines after the header boundary that
\* declare at least one G satellite line.
C28_NoEpochSwallowed ==
    (Done /\ HeaderWritten /\ result = "True")
    => /\ {emitted[k].at + 1 : k \in 1..Len(emitted)} = EpochsWithG
       /\ Len(emitted) = Cardinality(EpochsWithG)
       /\ \A k \in 2..Len(emitted) : emitted[k - 1].at < emitted[k].at

\* C29: when _wget_download has returned False there is no file at
\* output_file, whatever made it fail; a file is there after the call only
\* when it has returned True.
C29_FailedDownloadLeavesNothing ==
    Done => /\ result = "False" => ~outFile.exists
            /\ outFile.exists => result = "True"

====
